---- MODULE Spec2Model ----
(***************************************************************************)
(* Calendar change-request state machine and event store of the Bridge     *)
(* co-parenting backend (backend/routers/calendar.py and                   *)
(* backend/services/calendar_generator.py).                                *)
(*                                                                         *)
(* The two MongoDB collections db.events and db.change_requests are        *)
(* sequences of documents in natural (insertion) order, so that find_one   *)
(* returns the first matching document.  Every handler of the calendar     *)
(* router is an operator from the stores and the call's inputs to the HTTP *)
(* status and the stores afterwards, and one action applying it.           *)
(***************************************************************************)
EXTENDS Integers, Sequences, FiniteSets, TLC

(* ------------------------------ bounds -------------------------------- *)
\* documents ever inserted into db.events (ObjectIds 1..MaxEvents)
MaxEvents == 3
\* documents ever inserted into db.change_requests
MaxCRs == 1
\* the same, in the specification of repeated swaps
MaxSwapCRs == 2
\* resolve calls that overlap before the store is quiet again
MaxCalls == 2
\* calendar instants are 1..MaxDate
MaxDate == 2
\* days materialised by one run of the schedule generator
GenDays == 2
\* end_date - start_date of the generator loop (365 in the code)
GenHorizon == 29

(* --------------------------- value encoding --------------------------- *)
\* A missing / None string identifier (a document without an "id" field).
NoId == <<"none", 0>>
\* A string that is neither a stored uuid nor a valid ObjectId.
BadId == <<"bad", 0>>
\* str(uuid.uuid4()) given to the n-th inserted document of a collection.
Uuid(n) == <<"uuid", n>>
\* str(doc["_id"]) of the n-th inserted document of a collection.
OidStr(n) == <<"oid", n>>
\* A missing / None email.
NoEmail == ""
\* A missing / None date (newDate of a cancel request).
NoDate == 0
\* A missing timestamp (a field that was never written).
NoTime == 0

Dates == 1..MaxDate
Users == {"a", "b", "c"}
EventTypes == {"custody", "general"}

\* db.families: family F1 has both parents, family F2 only its first parent.
Families ==
  << [oid |-> "O1", id |-> "F1", parent1_email |-> "a", parent2_email |-> "b"],
     [oid |-> "O2", id |-> "F2", parent1_email |-> "c", parent2_email |-> NoEmail] >>

VARIABLES
  events,           \* db.events, in natural order
  change_requests,  \* db.change_requests, in natural order
  evCount,          \* ObjectIds handed out by db.events
  crCount,          \* ObjectIds handed out by db.change_requests
  swapLog,          \* history: the last approved swap and the dates before it
  calls,            \* resolve calls between their status write and their apply step
  race,             \* history: the stores before the calls in flight began
  gen,              \* the loop state of one run of the schedule generator
  view,             \* the last answer of a list endpoint or of a notifying call
  custodyAgreement  \* custodyAgreement.status of family F1 and its background task

vars == <<events, change_requests, evCount, crCount, swapLog, calls, race, gen, view,
          custodyAgreement>>

(* ------------------------------ helpers ------------------------------- *)
Range(s) == {s[i] : i \in DOMAIN s}

\* find_one: the first position among the matching positions S, 0 when none.
FirstIn(S) ==
  IF S = {} THEN 0 ELSE CHOOSE i \in S : \A j \in S : i <= j

\* delete_one by position.
RemoveAt(s, i) == SubSeq(s, 1, i - 1) \o SubSeq(s, i + 1, Len(s))

\* bson.ObjectId(x) succeeds only on an ObjectId string.
IsObjectIdStr(x) == x[1] = "oid"

(* ------------------------- family directory --------------------------- *)
\* db.families.find_one({"$or": [parent1_email, parent2_email]}); 0 = none.
FamilyIdxOf(email) ==
  FirstIn({k \in DOMAIN Families :
             Families[k].parent1_email = email \/ Families[k].parent2_email = email})

\* _get_family_for_user: the list [family.id, str(family._id)].
FamilyIdsOf(email) ==
  LET k == FamilyIdxOf(email) IN
  IF k = 0 THEN <<>>
  ELSE (IF Families[k].id # "" THEN <<Families[k].id>> ELSE <<>>)
       \o <<Families[k].oid>>

(* ---------------------------- owned lookup ---------------------------- *)
\* find_one({"id": x}) falling back to find_one({"_id": ObjectId(x)}).
\* A query for id None matches the documents that have no id; ObjectId(None)
\* is a fresh ObjectId and matches nothing.
FindDocIdx(coll, x) ==
  LET byId == FirstIn({i \in DOMAIN coll : coll[i].id = x}) IN
  IF byId # 0 THEN byId
  ELSE IF IsObjectIdStr(x) THEN FirstIn({i \in DOMAIN coll : coll[i].oid = x[2]})
       ELSE 0

\* Mutant of FindEventForFamily: the family check left out.
FindEventForFamily_AnyFamily(evs, event_id, family_ids) == FindDocIdx(evs, event_id)

\* _find_event_for_family: index of the event, 0 for HTTP 404.
FindEventForFamily(evs, event_id, family_ids) ==
  LET i == FindDocIdx(evs, event_id) IN
  IF i = 0 \/ evs[i].family_id \notin Range(family_ids) THEN 0 ELSE i

\* _find_change_request_for_family: index of the request, 0 for HTTP 404.
FindChangeRequestForFamily(crs, request_id, family_ids) ==
  LET i == FindDocIdx(crs, request_id) IN
  IF i = 0 \/ crs[i].family_id \notin Range(family_ids) THEN 0 ELSE i

(* --------------------------- client inputs ---------------------------- *)
\* The identifier strings a client can send for an event / a change request.
EventIdInputs ==
  {Uuid(n) : n \in 1..MaxEvents} \cup {OidStr(n) : n \in 1..MaxEvents} \cup {BadId}
RequestIdInputs ==
  {Uuid(n) : n \in 1..MaxSwapCRs} \cup {OidStr(n) : n \in 1..MaxSwapCRs} \cup {BadId}
RequestTypeInputs == {"swap", "modify", "cancel", "other"}
StatusInputs == {"approved", "rejected", "pending"}

(* ---------------------------- event store ----------------------------- *)
\* create_calendar_event: [code, events].
CreateCalendarEventResult(evs, n, user, date, type) ==
  LET fids == FamilyIdsOf(user) IN
  IF FamilyIdxOf(user) = 0 THEN [code |-> 404, events |-> evs]
  ELSE [code |-> 200,
        events |-> Append(evs, [oid |-> n, id |-> Uuid(n), family_id |-> fids[1],
                                date |-> date, type |-> type,
                                createdBy_email |-> user])]

\* A conflict check whose query does not exclude the new event.
IsConflict_CountsItself(evs, event_id, family_ids, date, type) ==
  /\ \E i \in DOMAIN evs : /\ evs[i].family_id \in Range(family_ids)
                            /\ evs[i].date = date
                            /\ evs[i].type = "custody"
  /\ type = "custody"

\* create_calendar_event, lines 206-216, on the store that holds the new event:
\* find_one({family_id in family_ids, date, type: custody, id: {$ne: event_id}})
\* and event_data.type == "custody".
IsConflict(evs, event_id, family_ids, date, type) ==
  /\ \E i \in DOMAIN evs : /\ evs[i].family_id \in Range(family_ids)
                            /\ evs[i].date = date
                            /\ evs[i].type = "custody"
                            /\ evs[i].id # event_id
  /\ type = "custody"

\* The creator-only guard of update_calendar_event and delete_calendar_event.
IsForeignCreator(doc, user) ==
  doc.createdBy_email # NoEmail /\ doc.createdBy_email # user

\* update_calendar_event: [code, events].
UpdateCalendarEventResult(evs, user, event_id, date, type) ==
  LET fids == FamilyIdsOf(user)
      i == FindEventForFamily(evs, event_id, fids) IN
  IF FamilyIdxOf(user) = 0 \/ i = 0 THEN [code |-> 404, events |-> evs]
  ELSE IF IsForeignCreator(evs[i], user) THEN [code |-> 403, events |-> evs]
  ELSE [code |-> 200,
        events |-> [evs EXCEPT ![i].date = date, ![i].type = type]]

\* delete_calendar_event: [code, events].
DeleteCalendarEventResult(evs, user, event_id) ==
  LET fids == FamilyIdsOf(user)
      i == FindEventForFamily(evs, event_id, fids) IN
  IF FamilyIdxOf(user) = 0 \/ i = 0 THEN [code |-> 404, events |-> evs]
  ELSE IF IsForeignCreator(evs[i], user) THEN [code |-> 403, events |-> evs]
  ELSE [code |-> 204, events |-> RemoveAt(evs, i)]

(* --------------------------- list endpoints --------------------------- *)
\* A stored date that names a calendar day is the integer yyyymmdd; these are
\* datetime.year, datetime.month and datetime.day of it.
YearOf(date) == date \div 10000
MonthOf(date) == (date \div 100) % 100
DayOf(date) == date % 100

\* The previous-month test without its January case.
IsPrevMonth_SameYear(event_year, event_month, year, month) ==
  event_month = month - 1 /\ event_year = year

\* get_calendar_events, is_prev_month (lines 161-162).
IsPrevMonth(event_year, event_month, year, month) ==
  \/ (month = 1 /\ event_month = 12 /\ event_year = year - 1)
  \/ (event_month = month - 1 /\ event_year = year)

\* get_calendar_events, is_next_month (lines 163-164).
IsNextMonth(event_year, event_month, year, month) ==
  \/ (month = 12 /\ event_month = 1 /\ event_year = year + 1)
  \/ (event_month = month + 1 /\ event_year = year)

\* get_calendar_events, the inclusion test of one event (lines 154-170).
IsListed(date, year, month) ==
  IF YearOf(date) = year /\ MonthOf(date) = month THEN TRUE
  ELSE IF IsPrevMonth(YearOf(date), MonthOf(date), year, month) /\ DayOf(date) >= 25
  THEN TRUE
  ELSE IsNextMonth(YearOf(date), MonthOf(date), year, month) /\ DayOf(date) <= 7

\* A list endpoint that raises when the caller has no family.
NoFamilyAnswer_Raising == [code |-> 404, body |-> <<>>]

\* get_calendar_events and get_change_requests, "if not family: return []".
NoFamilyAnswer == [code |-> 200, body |-> <<>>]

\* get_calendar_events: [code, body].
GetCalendarEventsResult(evs, user, year, month) ==
  LET fids == FamilyIdsOf(user) IN
  IF FamilyIdxOf(user) = 0 THEN NoFamilyAnswer
  ELSE [code |-> 200,
        body |-> SelectSeq(evs, LAMBDA doc : /\ doc.family_id \in Range(fids)
                                             /\ IsListed(doc.date, year, month))]

\* get_change_requests: [code, body]; a caller without family gets [].
GetChangeRequestsResult(crs, user) ==
  LET fids == FamilyIdsOf(user) IN
  IF FamilyIdxOf(user) = 0 THEN NoFamilyAnswer
  ELSE [code |-> 200,
        body |-> SelectSeq(crs, LAMBDA doc : doc.family_id \in Range(fids))]

(* ------------------------- schedule generator ------------------------- *)
\* Variant that clears the family's custody events before the lookups.
GenerateCustodyEvents_ClearsFirst(evs, n, family_id, start) ==
  LET k == FirstIn({j \in DOMAIN Families : Families[j].id = family_id})
      cleared == SelectSeq(evs, LAMBDA d : ~(d.family_id = family_id /\ d.type = "custody")) IN
  IF k = 0 THEN cleared
  ELSE IF Families[k].parent1_email = NoEmail \/ Families[k].parent2_email = NoEmail
  THEN cleared
  ELSE cleared
       \o [j \in 1..GenDays |->
             [oid |-> n + j, id |-> NoId, family_id |-> family_id,
              date |-> start + j - 1, type |-> "custody",
              createdBy_email |-> NoEmail]]

\* generate_custody_events(family_id, ...) started on day `start`: the events
\* collection afterwards.  The generated documents carry no id and no creator.
GenerateCustodyEvents(evs, n, family_id, start) ==
  LET k == FirstIn({j \in DOMAIN Families : Families[j].id = family_id}) IN
  IF k = 0 THEN evs
  ELSE IF Families[k].parent1_email = NoEmail \/ Families[k].parent2_email = NoEmail
  THEN evs
  ELSE SelectSeq(evs, LAMBDA d : ~(d.family_id = family_id /\ d.type = "custody"))
       \o [j \in 1..GenDays |->
             [oid |-> n + j, id |-> NoId, family_id |-> family_id,
              date |-> start + j - 1, type |-> "custody",
              createdBy_email |-> NoEmail]]

(* ------------------ schedule generator: who has the day ---------------- *)
\* A text is a sequence of words; these are the words of the agreements.
Words == {"2-2-3", "two-two-three", "Two-Two-Three", "week-on/week-off"}

\* str.lower(), word by word.
LowerWord(w) == IF w = "Two-Two-Three" THEN "two-two-three" ELSE w
Lower(text) == [i \in DOMAIN text |-> LowerWord(text[i])]

\* needle in text
Contains(text, needle) == \E i \in DOMAIN text : text[i] = needle

\* str(custody_agreement): the text of every field of the agreement, as
\* stored.
StrOfAgreement(agreement) == agreement.custodySchedule \o agreement.holidaySchedule

\* Line 30: the 2-2-3 rotation is chosen, otherwise alternating weeks.
Is223(agreement) ==
  LET schedule_type == Lower(agreement.custodySchedule) IN
  Contains(schedule_type, "2-2-3") \/ Contains(StrOfAgreement(agreement), "2-2-3")

\* Mutant of pattern: the second week repeats the first.
pattern_SameWeeks(parent1_email, parent2_email) ==
  << parent1_email, parent1_email, parent2_email, parent2_email,
     parent1_email, parent1_email, parent1_email,
     parent1_email, parent1_email, parent2_email, parent2_email,
     parent2_email, parent2_email, parent2_email >>

\* Mutant of pattern: parent1 keeps the last day of the cycle.
pattern_LastDayParent1(parent1_email, parent2_email) ==
  << parent1_email, parent1_email, parent2_email, parent2_email,
     parent1_email, parent1_email, parent1_email,
     parent2_email, parent2_email, parent1_email, parent1_email,
     parent2_email, parent2_email, parent1_email >>

\* Lines 37-44: the 14-day pattern of the 2-2-3 rotation.
pattern(parent1_email, parent2_email) ==
  << parent1_email, parent1_email,
     parent2_email, parent2_email,
     parent1_email, parent1_email, parent1_email,
     parent2_email, parent2_email,
     parent1_email, parent1_email,
     parent2_email, parent2_email, parent2_email >>

cycle_length == 14

\* Mutant of SwitchParent: the switch also made on the first day.
SwitchParent_FromFirstDay(current_parent, days_since_start, parent1_email, parent2_email) ==
  IF days_since_start % 7 = 0
  THEN (IF current_parent = parent1_email THEN parent2_email ELSE parent1_email)
  ELSE current_parent

\* Lines 71-72: the running parent of alternating weeks on the next day.
SwitchParent(current_parent, days_since_start, parent1_email, parent2_email) ==
  IF days_since_start > 0 /\ days_since_start % 7 = 0
  THEN (IF current_parent = parent1_email THEN parent2_email ELSE parent1_email)
  ELSE current_parent

\* The agreements and the start days (date.today()) of the runs.
Texts == {<<>>} \cup {<<w>> : w \in Words}
Agreements == [custodySchedule : Texts, holidaySchedule : {<<>>, <<"2-2-3">>}]
StartDays == {1, 4}

\* The loop state when a run for family k enters its loop (lines 10-46, 66).
GenEntry(k, agreement, start_date) ==
  [pc |-> "loop", agreement |-> agreement,
   parent1_email |-> Families[k].parent1_email,
   parent2_email |-> Families[k].parent2_email,
   is223 |-> Is223(agreement),
   start_date |-> start_date, end_date |-> start_date + GenHorizon,
   current_date |-> start_date,
   current_parent |-> Families[k].parent1_email,
   out |-> <<>>]

(* ----------------------- change-request machine ----------------------- *)
\* Mutant of ModifyPayloadRefusal: the newDate check left out.
ModifyPayloadRefusal_Unchecked(newDate) == 0

\* create_change_request, lines 384-388: a modify request needs a newDate.
ModifyPayloadRefusal(newDate) ==
  IF newDate = NoDate THEN 400 ELSE 0

\* Mutant of SwapPartnerIdx: the partner looked up without the family check.
SwapPartnerIdx_AnyFamily(evs, swapEventId, family_ids) ==
  IF swapEventId = NoId THEN 0 ELSE FindDocIdx(evs, swapEventId)

\* create_change_request, lines 390-395: a swap request needs a swapEventId
\* that the owned lookup resolves; the partner's index, 0 when it does not.
SwapPartnerIdx(evs, swapEventId, family_ids) ==
  IF swapEventId = NoId THEN 0
  ELSE FindEventForFamily(evs, swapEventId, family_ids)

\* create_change_request: [code, crs].
CreateChangeRequestResult(evs, crs, n, user, event_id, change_type, newDate, swapEventId) ==
  LET fids == FamilyIdsOf(user)
      i == FindEventForFamily(evs, event_id, fids)
      j == SwapPartnerIdx(evs, swapEventId, fids)
      doc == [oid |-> n, id |-> Uuid(n), family_id |-> fids[1],
              event_id |-> evs[i].id, requestedBy_email |-> user,
              status |-> "pending", requestType |-> change_type,
              newDate |-> NoDate, swapEventId |-> NoId,
              resolvedBy_email |-> NoEmail, updatedAt |-> NoTime,
              \* snapshot of the target, and of the partner of a swap
              eventDate |-> evs[i].date, eventType |-> evs[i].type,
              swapEventDate |-> NoDate,
              \* history: the documents the two lookups returned
              event_oid |-> evs[i].oid, swap_oid |-> 0]
  IN
  IF FamilyIdxOf(user) = 0 \/ i = 0 THEN [code |-> 404, crs |-> crs]
  ELSE IF change_type \notin {"swap", "modify", "cancel"} THEN [code |-> 400, crs |-> crs]
  ELSE IF change_type = "modify" THEN
    IF ModifyPayloadRefusal(newDate) # 0
    THEN [code |-> ModifyPayloadRefusal(newDate), crs |-> crs]
    ELSE [code |-> 200, crs |-> Append(crs, [doc EXCEPT !.newDate = newDate])]
  ELSE IF change_type = "swap" THEN
    IF swapEventId = NoId THEN [code |-> 400, crs |-> crs]
    ELSE IF j = 0 THEN [code |-> 404, crs |-> crs]
    ELSE [code |-> 200,
          crs |-> Append(crs, [doc EXCEPT !.swapEventId = evs[j].id,
                                          !.swapEventDate = evs[j].date,
                                          !.swap_oid = evs[j].oid])]
  ELSE [code |-> 200, crs |-> Append(crs, doc)]

\* Mutant of IsSelfApproval: the check left out.
IsSelfApproval_Never(cr, user, status) == FALSE

\* Mutant of IsSelfApproval: the caller compared with the recorded resolver
\* instead of the requester.
IsSelfApproval_ByResolver(cr, user, status) ==
  status = "approved" /\ cr.resolvedBy_email = user

\* update_change_request, lines 438-441: the requester approving their own
\* request.
IsSelfApproval(cr, user, status) ==
  status = "approved" /\ cr.requestedBy_email = user

\* Mutant of ResolveRefusal: every status string accepted as a decision.
ResolveRefusal_AnyStatus(crs, user, request_id, status) ==
  LET r == FindChangeRequestForFamily(crs, request_id, FamilyIdsOf(user)) IN
  IF FamilyIdxOf(user) = 0 \/ r = 0 THEN 404
  ELSE IF IsSelfApproval(crs[r], user, status) THEN 403
  ELSE 0

\* update_change_request, lines 430-445: the status the checks end with,
\* 0 when they all pass.
ResolveRefusal(crs, user, request_id, status) ==
  LET r == FindChangeRequestForFamily(crs, request_id, FamilyIdsOf(user)) IN
  IF FamilyIdxOf(user) = 0 \/ r = 0 THEN 404
  ELSE IF status \notin {"approved", "rejected"} THEN 400
  ELSE IF IsSelfApproval(crs[r], user, status) THEN 403
  ELSE 0

\* A resolution write that also drops the snapshot of the target's date.
PersistResolution_DropsSnapshot(crs, r, status, user) ==
  [crs EXCEPT ![r].status = status, ![r].resolvedBy_email = user,
              ![r].eventDate = NoDate]

\* Variant that cascades the decision to every request on the same event.
PersistResolution_Cascades(crs, r, status, user) ==
  [q \in DOMAIN crs |->
     IF crs[q].event_id = crs[r].event_id
     THEN [crs[q] EXCEPT !.status = status, !.resolvedBy_email = user]
     ELSE crs[q]]

\* update_change_request, lines 447-454: the single write to the request.
PersistResolution(crs, r, status, user) ==
  [crs EXCEPT ![r].status = status, ![r].resolvedBy_email = user]

\* An apply step whose second write of a swap uses the date the first write
\* has just stored.
ApplyChange_SecondWriteReadsBack(evs, cr, fids) ==
  IF cr.requestType = "swap" THEN
    IF cr.swapEventId = NoId THEN [code |-> 400, events |-> evs]
    ELSE LET i == FindEventForFamily(evs, cr.event_id, fids)
             j == FindEventForFamily(evs, cr.swapEventId, fids) IN
         IF i = 0 \/ j = 0 THEN [code |-> 404, events |-> evs]
         ELSE LET first == [evs EXCEPT ![i].date = evs[j].date] IN
              [code |-> 200, events |-> [first EXCEPT ![j].date = first[i].date]]
  ELSE IF cr.requestType = "modify" THEN
    IF cr.newDate = NoDate THEN [code |-> 400, events |-> evs]
    ELSE LET i == FindEventForFamily(evs, cr.event_id, fids) IN
         IF i = 0 THEN [code |-> 404, events |-> evs]
         ELSE [code |-> 200, events |-> [evs EXCEPT ![i].date = cr.newDate]]
  ELSE IF cr.requestType = "cancel" THEN
    LET i == FindEventForFamily(evs, cr.event_id, fids) IN
    IF i = 0 THEN [code |-> 404, events |-> evs]
    ELSE [code |-> 200, events |-> RemoveAt(evs, i)]
  ELSE [code |-> 200, events |-> evs]

\* update_change_request, lines 480-523: the mutation of an approved request,
\* looked up among the live events: [code, events].
ApplyChange(evs, cr, fids) ==
  IF cr.requestType = "swap" THEN
    IF cr.swapEventId = NoId THEN [code |-> 400, events |-> evs]
    ELSE LET i == FindEventForFamily(evs, cr.event_id, fids)
             j == FindEventForFamily(evs, cr.swapEventId, fids) IN
         IF i = 0 \/ j = 0 THEN [code |-> 404, events |-> evs]
         ELSE LET event_date == evs[i].date
                  swap_date == evs[j].date
                  first == [evs EXCEPT ![i].date = swap_date] IN
              [code |-> 200, events |-> [first EXCEPT ![j].date = event_date]]
  ELSE IF cr.requestType = "modify" THEN
    IF cr.newDate = NoDate THEN [code |-> 400, events |-> evs]
    ELSE LET i == FindEventForFamily(evs, cr.event_id, fids) IN
         IF i = 0 THEN [code |-> 404, events |-> evs]
         ELSE [code |-> 200, events |-> [evs EXCEPT ![i].date = cr.newDate]]
  ELSE IF cr.requestType = "cancel" THEN
    LET i == FindEventForFamily(evs, cr.event_id, fids) IN
    IF i = 0 THEN [code |-> 404, events |-> evs]
    ELSE [code |-> 200, events |-> RemoveAt(evs, i)]
  ELSE [code |-> 200, events |-> evs]

\* A resolve that runs the apply step for every decision.
UpdateChangeRequestResult_AppliesAnyDecision(evs, crs, user, request_id, status) ==
  LET refusal == ResolveRefusal(crs, user, request_id, status)
      r == FindChangeRequestForFamily(crs, request_id, FamilyIdsOf(user)) IN
  IF refusal # 0 THEN [code |-> refusal, crs |-> crs, events |-> evs]
  ELSE LET persisted == PersistResolution(crs, r, status, user)
           applied == ApplyChange(evs, persisted[r], FamilyIdsOf(user)) IN
       [code |-> applied.code, crs |-> persisted, events |-> applied.events]

\* update_change_request as a whole: [code, crs, events].
UpdateChangeRequestResult(evs, crs, user, request_id, status) ==
  LET refusal == ResolveRefusal(crs, user, request_id, status)
      r == FindChangeRequestForFamily(crs, request_id, FamilyIdsOf(user)) IN
  IF refusal # 0 THEN [code |-> refusal, crs |-> crs, events |-> evs]
  ELSE LET persisted == PersistResolution(crs, r, status, user) IN
       IF status = "approved"
       THEN LET applied == ApplyChange(evs, persisted[r], FamilyIdsOf(user)) IN
            [code |-> applied.code, crs |-> persisted, events |-> applied.events]
       ELSE [code |-> 200, crs |-> persisted, events |-> evs]

(* ------------------------------ notifications ------------------------- *)
\* What the mail transport does with a message.
Deliveries == {"sent", "failed"}

\* A send whose delivery error reaches the caller.
SendReturns_Propagates(delivery) == delivery = "sent"

\* EmailService.send_event_notification, send_swap_request_created and
\* send_swap_resolution_notification: TRUE when the await returns to the
\* handler; the delivery is inside try/except Exception.
SendReturns(delivery) == delivery \in Deliveries

\* The handlers that notify after their write (create, edit and delete of an
\* event, creation of a request): the response after the send, 500 for an
\* exception that leaves the handler.
AfterNotification(res, delivery) ==
  IF res.code \in {200, 204} /\ ~SendReturns(delivery)
  THEN [res EXCEPT !.code = 500]
  ELSE res

\* update_change_request with its notification (lines 456-478), which is
\* awaited between the status write and the apply step.
UpdateChangeRequestNotified(evs, crs, user, request_id, status, delivery) ==
  LET refusal == ResolveRefusal(crs, user, request_id, status)
      r == FindChangeRequestForFamily(crs, request_id, FamilyIdsOf(user)) IN
  IF refusal = 0 /\ ~SendReturns(delivery)
  THEN [code |-> 500, crs |-> PersistResolution(crs, r, status, user), events |-> evs]
  ELSE UpdateChangeRequestResult(evs, crs, user, request_id, status)

(* ------------- the apply step as separate database calls -------------- *)
\* update_one({"_id": o}, {"$set": {"date": d}}): no document, no change.
SetDateByOid(evs, o, d) ==
  [i \in DOMAIN evs |-> IF evs[i].oid = o THEN [evs[i] EXCEPT !.date = d] ELSE evs[i]]

\* delete_one({"_id": o}).
DeleteByOid(evs, o) == SelectSeq(evs, LAMBDA x : x.oid # o)

\* What the reads of the apply step return when nothing was read.
NoRead == [code |-> 0, event_oid |-> 0, swap_oid |-> 0,
           event_date |-> NoDate, swap_date |-> NoDate]

\* update_change_request, the find_one calls of the apply step (lines 485-494,
\* 505-513, 520): the status they end with and the documents they returned.
ReadForApplyResult(evs, cr, fids) ==
  LET i == FindEventForFamily(evs, cr.event_id, fids)
      j == FindEventForFamily(evs, cr.swapEventId, fids) IN
  IF cr.requestType = "swap" THEN
    IF cr.swapEventId = NoId THEN [NoRead EXCEPT !.code = 400]
    ELSE IF i = 0 \/ j = 0 THEN [NoRead EXCEPT !.code = 404]
    ELSE [code |-> 200, event_oid |-> evs[i].oid, swap_oid |-> evs[j].oid,
          event_date |-> evs[i].date, swap_date |-> evs[j].date]
  ELSE IF cr.requestType = "modify" /\ cr.newDate = NoDate THEN [NoRead EXCEPT !.code = 400]
  ELSE IF i = 0 THEN [NoRead EXCEPT !.code = 404]
  ELSE [NoRead EXCEPT !.code = 200, !.event_oid = evs[i].oid]

\* update_change_request, the writes of the apply step (lines 496-503,
\* 515-518, 521-523), addressed by the _id of the documents read before.
WriteApplyResult(evs, cr, rd) ==
  IF cr.requestType = "swap"
  THEN SetDateByOid(SetDateByOid(evs, rd.event_oid, rd.swap_date), rd.swap_oid, rd.event_date)
  ELSE IF cr.requestType = "modify" THEN SetDateByOid(evs, rd.event_oid, cr.newDate)
  ELSE IF cr.requestType = "cancel" THEN DeleteByOid(evs, rd.event_oid)
  ELSE evs

(* ------------------------------ history ------------------------------- *)
\* Position in evs of the event document with ObjectId o, 0 when deleted.
IdxOfOid(evs, o) == FirstIn({i \in DOMAIN evs : evs[i].oid = o})

\* The date of the event with ObjectId o, NoDate when it is deleted.
DateOfOid(evs, o) ==
  IF IdxOfOid(evs, o) = 0 THEN NoDate ELSE evs[IdxOfOid(evs, o)].date

\* The ObjectIds of the stored events.
OidsOf(evs) == {evs[i].oid : i \in DOMAIN evs}

NoSwap == [cr |-> 0, a |-> 0, b |-> 0, da |-> NoDate, db |-> NoDate]

\* swapLog after a step from evs to evs2 that is no approval of a swap: the
\* log is dropped when the step changed the date or the existence of one of
\* the two logged events.
LogKept(log, evs, evs2) ==
  IF log # NoSwap /\ DateOfOid(evs2, log.a) = DateOfOid(evs, log.a)
                  /\ DateOfOid(evs2, log.b) = DateOfOid(evs, log.b)
  THEN log ELSE NoSwap

\* swapLog after update_change_request: the approval of a swap request on
\* two stored events (A, B) is logged with the dates A and B had before it,
\* unless it is the second approved swap of the logged pair, which ends the
\* log.
LogAfterResolve(log, evs, evs2, crs, user, request_id, status) ==
  LET r == FindChangeRequestForFamily(crs, request_id, FamilyIdsOf(user)) IN
  IF /\ ResolveRefusal(crs, user, request_id, status) = 0
     /\ status = "approved"
     /\ crs[r].requestType = "swap"
     /\ crs[r].event_oid \in OidsOf(evs)
     /\ crs[r].swap_oid \in OidsOf(evs)
  THEN IF log # NoSwap /\ log.cr # crs[r].oid
          /\ log.a = crs[r].event_oid /\ log.b = crs[r].swap_oid
       THEN NoSwap
       ELSE [cr |-> crs[r].oid, a |-> crs[r].event_oid, b |-> crs[r].swap_oid,
             da |-> DateOfOid(evs, crs[r].event_oid),
             db |-> DateOfOid(evs, crs[r].swap_oid)]
  ELSE LogKept(log, evs, evs2)

\* No resolve call is in flight and none has been since the stores were
\* last recorded.
NoRace == [evs |-> <<>>, crs |-> <<>>, begun |-> <<>>, ok |-> TRUE]

\* race after a step of another operation: a step that changes a store
\* while resolve calls are in flight ends the comparison with serial runs.
RaceKept(rc, inflight, changed) ==
  IF inflight # {} /\ changed THEN [rc EXCEPT !.ok = FALSE] ELSE rc

\* No run of the schedule generator is in progress.
GenIdle == [pc |-> "idle"]

\* No list endpoint has answered yet.
NoView == [op |-> "none"]

\* Family F1 has no custodyAgreement and no background task; `generated` is
\* history: the task's call of generate_custody_events has returned.
NoAgreement == [status |-> "none", pc |-> "idle", path |-> "none", generated |-> FALSE]

(* ------------------------------ actions ------------------------------- *)
Init ==
  /\ events = <<>>
  /\ change_requests = <<>>
  /\ evCount = 0
  /\ crCount = 0
  /\ swapLog = NoSwap
  /\ calls = {}
  /\ race = NoRace
  /\ gen = GenIdle
  /\ view = NoView
  /\ custodyAgreement = NoAgreement

\* POST /api/v1/calendar/events
CreateCalendarEvent(user, date, type) ==
  /\ evCount < MaxEvents
  /\ LET res == CreateCalendarEventResult(events, evCount + 1, user, date, type) IN
     /\ events' = res.events
     /\ evCount' = IF res.code = 200 THEN evCount + 1 ELSE evCount
  /\ race' = RaceKept(race, calls, events' # events)
  /\ UNCHANGED <<change_requests, crCount, swapLog, calls, gen, view, custodyAgreement>>

\* PUT /api/v1/calendar/events/{event_id}
UpdateCalendarEvent(user, event_id, date, type) ==
  /\ LET res == UpdateCalendarEventResult(events, user, event_id, date, type) IN
     /\ events' = res.events
  /\ swapLog' = LogKept(swapLog, events, events')
  /\ race' = RaceKept(race, calls, events' # events)
  /\ UNCHANGED <<change_requests, evCount, crCount, calls, gen, view, custodyAgreement>>

\* DELETE /api/v1/calendar/events/{event_id}
DeleteCalendarEvent(user, event_id) ==
  /\ LET res == DeleteCalendarEventResult(events, user, event_id) IN
     /\ events' = res.events
  /\ swapLog' = LogKept(swapLog, events, events')
  /\ race' = RaceKept(race, calls, events' # events)
  /\ UNCHANGED <<change_requests, evCount, crCount, calls, gen, view, custodyAgreement>>

\* The background task of the family router running generate_custody_events
\* for the caller's family (family.py passes user_family["id"]).
Regenerate(user, start) ==
  /\ FamilyIdxOf(user) # 0
  /\ evCount + GenDays <= MaxEvents
  /\ start + GenDays - 1 <= MaxDate
  /\ events' = GenerateCustodyEvents(events, evCount, Families[FamilyIdxOf(user)].id, start)
  /\ evCount' = IF events' = events THEN evCount ELSE evCount + GenDays
  /\ swapLog' = LogKept(swapLog, events, events')
  /\ race' = RaceKept(race, calls, events' # events)
  /\ UNCHANGED <<change_requests, crCount, calls, gen, view, custodyAgreement>>

\* POST /api/v1/calendar/change-requests
CreateChangeRequest(cap, user, event_id, change_type, newDate, swapEventId) ==
  /\ crCount < cap
  /\ LET res == CreateChangeRequestResult(events, change_requests, crCount + 1, user,
                                          event_id, change_type, newDate, swapEventId) IN
     /\ change_requests' = res.crs
     /\ crCount' = IF res.code = 200 THEN crCount + 1 ELSE crCount
  /\ race' = RaceKept(race, calls, change_requests' # change_requests)
  /\ UNCHANGED <<events, evCount, swapLog, calls, gen, view, custodyAgreement>>

\* PUT /api/v1/calendar/change-requests/{request_id}
UpdateChangeRequest(user, request_id, status) ==
  /\ LET res == UpdateChangeRequestResult(events, change_requests, user, request_id, status) IN
     /\ events' = res.events
     /\ change_requests' = res.crs
  /\ swapLog' = LogAfterResolve(swapLog, events, events', change_requests,
                                user, request_id, status)
  /\ race' = RaceKept(race, calls, events' # events \/ change_requests' # change_requests)
  /\ UNCHANGED <<evCount, crCount, calls, gen, view, custodyAgreement>>

\* PUT /change-requests/{request_id} up to its status write (lines 430-454);
\* the handler is then suspended in the notification (lines 472-478), and an
\* approval still has its apply step to run.
BeginResolve(user, request_id, status) ==
  /\ calls = {} \/ Len(race.begun) < MaxCalls
  /\ LET refusal == ResolveRefusal(change_requests, user, request_id, status)
         r == FindChangeRequestForFamily(change_requests, request_id, FamilyIdsOf(user))
         persisted == PersistResolution(change_requests, r, status, user)
         n == Len(race.begun) + 1 IN
     IF refusal # 0 THEN UNCHANGED <<change_requests, calls, race, custodyAgreement>>
     ELSE /\ change_requests' = persisted
          /\ IF status = "approved"
             THEN /\ calls' = calls \cup {[n |-> IF calls = {} THEN 1 ELSE n, user |-> user,
                                           cr |-> persisted[r], phase |-> "persisted",
                                           rd |-> NoRead]}
                  /\ race' = IF calls = {}
                             THEN [evs |-> events, crs |-> change_requests,
                                   begun |-> <<[user |-> user, q |-> request_id]>>,
                                   ok |-> TRUE]
                             ELSE [race EXCEPT !.begun = Append(@, [user |-> user,
                                                                    q |-> request_id])]
             ELSE /\ calls' = calls
                  /\ race' = RaceKept(race, calls, TRUE)
  /\ UNCHANGED <<events, evCount, crCount, swapLog, gen, view, custodyAgreement>>

\* The lookups of the apply step of call c; a failing lookup ends the call.
ReadForApply(c) ==
  /\ c \in calls
  /\ c.phase = "persisted"
  /\ LET rd == ReadForApplyResult(events, c.cr, FamilyIdsOf(c.user)) IN
     calls' = IF rd.code = 200
              THEN (calls \ {c}) \cup {[c EXCEPT !.phase = "read", !.rd = rd]}
              ELSE calls \ {c}
  /\ race' = IF calls' = {} THEN NoRace ELSE race
  /\ UNCHANGED <<events, change_requests, evCount, crCount, swapLog, gen, view, custodyAgreement>>

\* The writes of the apply step of call c, which end the call.
WriteApply(c) ==
  /\ c \in calls
  /\ c.phase = "read"
  /\ events' = WriteApplyResult(events, c.cr, c.rd)
  /\ calls' = calls \ {c}
  /\ swapLog' = LogKept(swapLog, events, events')
  /\ race' = IF calls' = {} THEN NoRace ELSE race
  /\ UNCHANGED <<change_requests, evCount, crCount, gen, view, custodyAgreement>>

\* One pass of the while loop of the 2-2-3 branch (lines 48-61).
GenStep223 ==
  /\ gen.pc = "loop" /\ gen.is223
  /\ gen.current_date <= gen.end_date
  /\ LET days_since_start == gen.current_date - gen.start_date
         day_index == days_since_start % cycle_length
         current_parent == pattern(gen.parent1_email, gen.parent2_email)[day_index + 1] IN
     gen' = [gen EXCEPT !.current_parent = current_parent,
                        !.out = Append(@, [date |-> gen.current_date,
                                           parent |-> current_parent]),
                        !.current_date = @ + 1]
  /\ UNCHANGED <<events, change_requests, evCount, crCount, swapLog, calls, race, view, custodyAgreement>>

\* One pass of the while loop of the alternating-weeks branch (lines 68-82).
GenStepAlternating ==
  /\ gen.pc = "loop" /\ ~gen.is223
  /\ gen.current_date <= gen.end_date
  /\ LET days_since_start == gen.current_date - gen.start_date
         current_parent == SwitchParent(gen.current_parent, days_since_start,
                                        gen.parent1_email, gen.parent2_email) IN
     gen' = [gen EXCEPT !.current_parent = current_parent,
                        !.out = Append(@, [date |-> gen.current_date,
                                           parent |-> current_parent]),
                        !.current_date = @ + 1]
  /\ UNCHANGED <<events, change_requests, evCount, crCount, swapLog, calls, race, view, custodyAgreement>>

\* The callers: both parents of family F1 use every endpoint; the parent of
\* family F2 adds events of a second family to the store.
Parents == {"a", "b"}

Next ==
  \/ \E d \in Dates : CreateCalendarEvent("a", d, "general")
  \/ CreateCalendarEvent("c", MaxDate, "general")
  \/ \E u \in Parents, e \in EventIdInputs, d \in Dates :
       UpdateCalendarEvent(u, e, d, "general")
  \/ \E u \in Parents, e \in EventIdInputs : DeleteCalendarEvent(u, e)
  \/ \E u \in {"a", "c"}, d \in Dates : Regenerate(u, d)
  \/ \E u \in Parents, e \in EventIdInputs, d \in Dates \cup {NoDate} :
       CreateChangeRequest(MaxCRs, u, e, "modify", d, NoId)
  \/ \E u \in Parents, e \in EventIdInputs, w \in EventIdInputs \cup {NoId} :
       CreateChangeRequest(MaxCRs, u, e, "swap", NoDate, w)
  \/ \E u \in Parents, e \in EventIdInputs, k \in {"cancel", "other"} :
       CreateChangeRequest(MaxCRs, u, e, k, NoDate, NoId)
  \/ \E u \in Parents, q \in RequestIdInputs, st \in StatusInputs :
       UpdateChangeRequest(u, q, st)

Spec == Init /\ [][Next]_vars

\* Repeated swaps: parent a files swap requests on the events that parent a
\* created and the generator materialised, parent b approves them, and
\* events are deleted in between.
NextSwap ==
  \/ \E d \in Dates : CreateCalendarEvent("a", d, "general")
  \/ \E e \in EventIdInputs : DeleteCalendarEvent("a", e)
  \/ \E d \in Dates : Regenerate("a", d)
  \/ \E e \in EventIdInputs, w \in EventIdInputs :
       CreateChangeRequest(MaxSwapCRs, "a", e, "swap", NoDate, w)
  \/ \E q \in RequestIdInputs : UpdateChangeRequest("b", q, "approved")

SpecSwap == Init /\ [][NextSwap]_vars

\* Regeneration beside user-authored events: the parents create events of
\* both types (EventCreate.type is a free string) and the schedule of family
\* F1 is regenerated.
NextRegen ==
  \/ \E u \in Parents, d \in Dates, t \in EventTypes : CreateCalendarEvent(u, d, t)
  \/ CreateCalendarEvent("c", MaxDate, "custody")
  \/ \E u \in Parents, d \in Dates : Regenerate(u, d)

SpecRegen == Init /\ [][NextRegen]_vars

\* Concurrent resolutions: parent a enters custody days of family F1 and
\* files change requests on them, parent b approves the requests, and the
\* calls overlap with each other and with a regeneration of the schedule.
NextRace ==
  \/ \E d \in Dates : CreateCalendarEvent("a", d, "custody")
  \/ \E d \in Dates : Regenerate("a", d)
  \/ \E n, m \in 1..MaxEvents :
       n # m /\ CreateChangeRequest(MaxSwapCRs, "a", Uuid(n), "swap", NoDate, Uuid(m))
  \/ \E n \in 1..MaxEvents, d \in Dates :
       CreateChangeRequest(MaxSwapCRs, "a", Uuid(n), "modify", d, NoId)
  \/ \E n \in 1..MaxEvents :
       CreateChangeRequest(MaxSwapCRs, "a", Uuid(n), "cancel", NoDate, NoId)
  \/ \E n \in 1..MaxSwapCRs : BeginResolve("b", Uuid(n), "approved")
  \/ \E c \in calls : ReadForApply(c)
  \/ \E c \in calls : WriteApply(c)

SpecRace == Init /\ [][NextRace]_vars

\* Requests and later edits: parent a creates events and has the schedule
\* generated, files a swap request or modify requests on them and edits
\* events in between, and parent b resolves the requests one after another.
EventOidNames == {OidStr(n) : n \in 1..MaxEvents}

NextEdit ==
  \/ \E d \in Dates : CreateCalendarEvent("a", d, "general")
  \/ Regenerate("a", 1)
  \/ \E e \in EventOidNames, d \in Dates : UpdateCalendarEvent("a", e, d, "general")
  \/ \E n \in 1..(MaxEvents - 1) :
       CreateChangeRequest(MaxCRs, "a", OidStr(n), "swap", NoDate, OidStr(n + 1))
  \/ \E e \in EventOidNames, d \in Dates :
       CreateChangeRequest(MaxSwapCRs, "a", e, "modify", d, NoId)
  \/ \E n \in 1..MaxSwapCRs, st \in {"approved", "rejected"} :
       UpdateChangeRequest("b", Uuid(n), st)

SpecEdit == Init /\ [][NextEdit]_vars

\* The response of the last notifying call, with the outcome of its delivery.
Notified(call, delivery, code) ==
  [op |-> "notified", call |-> call, delivery |-> delivery, code |-> code]

\* POST /events with its notification (lines 202-225).
NotifyingCreateCalendarEvent(user, date, type, delivery) ==
  /\ evCount < MaxEvents
  /\ LET res == AfterNotification(
                  CreateCalendarEventResult(events, evCount + 1, user, date, type),
                  delivery) IN
     /\ events' = res.events
     /\ evCount' = IF events' # events THEN evCount + 1 ELSE evCount
     /\ view' = Notified("create", delivery, res.code)
  /\ race' = RaceKept(race, calls, events' # events)
  /\ UNCHANGED <<change_requests, crCount, swapLog, calls, gen, custodyAgreement>>

\* PUT /events/{event_id} with its notification (lines 258-283).
NotifyingUpdateCalendarEvent(user, event_id, date, type, delivery) ==
  /\ LET res == AfterNotification(
                  UpdateCalendarEventResult(events, user, event_id, date, type),
                  delivery) IN
     /\ events' = res.events
     /\ view' = Notified("update", delivery, res.code)
  /\ swapLog' = LogKept(swapLog, events, events')
  /\ race' = RaceKept(race, calls, events' # events)
  /\ UNCHANGED <<change_requests, evCount, crCount, calls, gen, custodyAgreement>>

\* DELETE /events/{event_id} with its notification (lines 305-317).
NotifyingDeleteCalendarEvent(user, event_id, delivery) ==
  /\ LET res == AfterNotification(DeleteCalendarEventResult(events, user, event_id),
                                  delivery) IN
     /\ events' = res.events
     /\ view' = Notified("delete", delivery, res.code)
  /\ swapLog' = LogKept(swapLog, events, events')
  /\ race' = RaceKept(race, calls, events' # events)
  /\ UNCHANGED <<change_requests, evCount, crCount, calls, gen, custodyAgreement>>

\* POST /change-requests with its notification (lines 404-418).
NotifyingCreateChangeRequest(cap, user, event_id, change_type, newDate, swapEventId, delivery) ==
  /\ crCount < cap
  /\ LET res == AfterNotification(
                  CreateChangeRequestResult(events, change_requests, crCount + 1, user,
                                            event_id, change_type, newDate, swapEventId),
                  delivery) IN
     /\ change_requests' = res.crs
     /\ crCount' = IF change_requests' # change_requests THEN crCount + 1 ELSE crCount
     /\ view' = Notified("request", delivery, res.code)
  /\ race' = RaceKept(race, calls, change_requests' # change_requests)
  /\ UNCHANGED <<events, evCount, swapLog, calls, gen, custodyAgreement>>

\* PUT /change-requests/{request_id} with its notification (lines 456-478).
NotifyingUpdateChangeRequest(user, request_id, status, delivery) ==
  /\ LET res == UpdateChangeRequestNotified(events, change_requests, user, request_id,
                                            status, delivery) IN
     /\ events' = res.events
     /\ change_requests' = res.crs
     /\ view' = Notified(status, delivery, res.code)
  /\ swapLog' = LogKept(swapLog, events, events')
  /\ race' = RaceKept(race, calls, events' # events \/ change_requests' # change_requests)
  /\ UNCHANGED <<evCount, crCount, calls, gen, custodyAgreement>>

\* Calls whose notification is delivered or fails: parent a creates, edits
\* and deletes events and files requests on them, parent b resolves them.
NextNotify ==
  \E dl \in Deliveries :
    \/ \E d \in Dates : NotifyingCreateCalendarEvent("a", d, "general", dl)
    \/ \E n \in 1..MaxEvents, d \in Dates :
         NotifyingUpdateCalendarEvent("a", Uuid(n), d, "general", dl)
    \/ \E n \in 1..MaxEvents : NotifyingDeleteCalendarEvent("a", Uuid(n), dl)
    \/ \E n \in 1..(MaxEvents - 1) :
         NotifyingCreateChangeRequest(MaxCRs, "a", Uuid(n), "swap", NoDate,
                                      Uuid(n + 1), dl)
    \/ \E n \in 1..MaxEvents, d \in Dates :
         NotifyingCreateChangeRequest(MaxCRs, "a", Uuid(n), "modify", d, NoId, dl)
    \/ \E n \in 1..MaxEvents :
         NotifyingCreateChangeRequest(MaxCRs, "a", Uuid(n), "cancel", NoDate, NoId, dl)
    \/ \E n \in 1..MaxCRs, st \in {"approved", "rejected"} :
         NotifyingUpdateChangeRequest("b", Uuid(n), st, dl)

SpecNotify == Init /\ [][NextNotify]_vars

\* GET /api/v1/calendar/events?year=&month=
GetCalendarEvents(user, year, month) ==
  /\ LET res == GetCalendarEventsResult(events, user, year, month) IN
     view' = [op |-> "events", user |-> user, year |-> year, month |-> month,
              code |-> res.code, body |-> res.body]
  /\ UNCHANGED <<events, change_requests, evCount, crCount, swapLog, calls, race, gen, custodyAgreement>>

\* GET /api/v1/calendar/change-requests
GetChangeRequests(user) ==
  /\ LET res == GetChangeRequestsResult(change_requests, user) IN
     view' = [op |-> "change-requests", user |-> user, year |-> 0, month |-> 0,
              code |-> res.code, body |-> res.body]
  /\ UNCHANGED <<events, change_requests, evCount, crCount, swapLog, calls, race, gen, custodyAgreement>>

\* The days on which the events of the month queries fall, around July 2024
\* and around the turns of the years 2023/2024 and 2024/2025.
CalendarDays ==
  {20240528, 20240620, 20240625, 20240628, 20240715, 20240807, 20240808,
   20231224, 20231231, 20250107}

\* The (year, month) pairs asked for.
MonthQueries == {<<2024, 7>>, <<2024, 1>>, <<2024, 12>>}

\* A caller who belongs to no family.
Stranger == "z"

\* The month view: the parents of both families create events, parent a
\* files a request, and the parents and a caller without family read the
\* lists.
NextMonth ==
  \/ \E d \in CalendarDays : CreateCalendarEvent("a", d, "general")
  \/ CreateCalendarEvent("c", 20240715, "general")
  \/ CreateChangeRequest(MaxCRs, "a", Uuid(1), "cancel", NoDate, NoId)
  \/ \E q \in MonthQueries : GetCalendarEvents("a", q[1], q[2])
  \/ \E u \in {"c", Stranger} : GetCalendarEvents(u, 2024, 7)
  \/ \E u \in {"a", Stranger} : GetChangeRequests(u)

SpecMonth == Init /\ [][NextMonth]_vars

(* ------------------- custody agreement and its task ------------------- *)
\* What a call of generate_custody_events by the background task does: it
\* returns, or a database call of it raises, the lookup of the family (line
\* 10) or a write after the cleanup (lines 21-82).
GenerationOutcomes == {"returns", "raises at lookup", "raises after cleanup"}

\* The events after a call of generate_custody_events with that outcome.
EventsAfterGeneration(evs, n, family_id, start, outcome) ==
  IF outcome = "returns" THEN GenerateCustodyEvents(evs, n, family_id, start)
  ELSE IF outcome = "raises at lookup" THEN evs
  ELSE SelectSeq(evs, LAMBDA d : ~(d.family_id = family_id /\ d.type = "custody"))

\* POST /api/v1/family/contract (upload_contract): the placeholder agreement
\* with status 'processing' is stored and parse_and_update_contract is
\* scheduled.
UploadContract(user) ==
  /\ FamilyIdxOf(user) = 1
  /\ custodyAgreement.pc = "idle"
  /\ custodyAgreement' = [status |-> "processing", pc |-> "parse", path |-> "upload",
                          generated |-> FALSE]
  /\ UNCHANGED <<events, change_requests, evCount, crCount, swapLog, calls, race, gen, view>>

\* parse_and_update_contract, lines 418-483: the document is parsed (with the
\* fallback data when parsing fails) and the agreement is stored with status
\* 'completed'.
StoreParsedAgreement ==
  /\ custodyAgreement.pc = "parse"
  /\ custodyAgreement' = [custodyAgreement EXCEPT !.status = "completed", !.pc = "generate"]
  /\ UNCHANGED <<events, change_requests, evCount, crCount, swapLog, calls, race, gen, view>>

\* POST /api/v1/family/custody-manual (save_manual_custody): the agreement is
\* stored with status 'processing' and update_events_background is scheduled.
SaveManualCustody(user) ==
  /\ FamilyIdxOf(user) = 1
  /\ custodyAgreement.pc = "idle"
  /\ custodyAgreement' = [status |-> "processing", pc |-> "generate", path |-> "manual",
                          generated |-> FALSE]
  /\ UNCHANGED <<events, change_requests, evCount, crCount, swapLog, calls, race, gen, view>>

\* The call of generate_custody_events by the background task and the status
\* write that follows it: parse_and_update_contract, lines 486-496, and
\* update_events_background, lines 799-815.
GenerateInBackground(start, outcome) ==
  /\ custodyAgreement.pc = "generate"
  /\ evCount + GenDays <= MaxEvents
  /\ start + GenDays - 1 <= MaxDate
  /\ events' = EventsAfterGeneration(events, evCount, Families[1].id, start, outcome)
  /\ evCount' = IF outcome = "returns" THEN evCount + GenDays ELSE evCount
  /\ custodyAgreement' =
       [custodyAgreement EXCEPT
          !.pc = "idle",
          !.generated = (outcome = "returns"),
          !.status = IF outcome # "returns" THEN "failed"
                     ELSE IF custodyAgreement.path = "manual" THEN "completed"
                     ELSE @]
  /\ swapLog' = LogKept(swapLog, events, events')
  /\ race' = RaceKept(race, calls, events' # events)
  /\ UNCHANGED <<change_requests, crCount, calls, gen, view>>

\* Agreements of family F1: the parents upload documents and enter the
\* schedule by hand, the background task of each submission runs, and parent
\* a creates events beside it.
NextAgreement ==
  \/ \E u \in Parents : UploadContract(u)
  \/ StoreParsedAgreement
  \/ \E u \in Parents : SaveManualCustody(u)
  \/ \E d \in Dates, o \in GenerationOutcomes : GenerateInBackground(d, o)
  \/ \E d \in Dates, t \in EventTypes : CreateCalendarEvent("a", d, t)
  \/ \E n \in 1..MaxEvents : DeleteCalendarEvent("a", Uuid(n))

SpecAgreement == Init /\ [][NextAgreement]_vars

\* delete_contract: [code, events]; the custody events are selected by
\* family_id = user_family["id"].
DeleteContractResult(evs, user) ==
  LET k == FamilyIdxOf(user) IN
  IF k = 0 THEN [code |-> 404, events |-> evs]
  ELSE [code |-> 200,
        events |-> SelectSeq(evs, LAMBDA d : ~(d.family_id = Families[k].id
                                               /\ d.type = "custody"))]

\* DELETE /api/v1/family/contract
DeleteContract(user) ==
  /\ custodyAgreement.pc = "idle"
  /\ LET res == DeleteContractResult(events, user) IN
     /\ events' = res.events
     /\ custodyAgreement' = IF res.code = 200 /\ FamilyIdxOf(user) = 1
                            THEN NoAgreement ELSE custodyAgreement
  /\ swapLog' = LogKept(swapLog, events, events')
  /\ race' = RaceKept(race, calls, events' # events)
  /\ UNCHANGED <<change_requests, evCount, crCount, calls, gen, view>>

\* A store that holds an event of family F1 from before the family had its
\* public id: its family_id is either identifier of the family
\* (_get_family_for_user returns both, lines 93-98).
InitLegacy ==
  /\ \E f \in Range(FamilyIdsOf("a")), d \in Dates, t \in EventTypes :
       events = <<[oid |-> 1, id |-> Uuid(1), family_id |-> f, date |-> d,
                   type |-> t, createdBy_email |-> "a"]>>
  /\ change_requests = <<>>
  /\ evCount = 1
  /\ crCount = 0
  /\ swapLog = NoSwap
  /\ calls = {}
  /\ race = NoRace
  /\ gen = GenIdle
  /\ view = NoView
  /\ custodyAgreement = NoAgreement

\* The family-scoped operations on such a store: the schedule is regenerated,
\* the agreement is deleted, events are created, edited and listed.
NextLegacy ==
  \/ \E u \in Parents : Regenerate(u, 1)
  \/ \E u \in Parents : DeleteContract(u)
  \/ \E d \in Dates, t \in EventTypes : CreateCalendarEvent("b", d, t)
  \/ \E n \in 1..MaxEvents, d \in Dates : UpdateCalendarEvent("a", OidStr(n), d, "custody")
  \/ \E u \in Parents : GetCalendarEvents(u, 0, 0)

SpecLegacy == InitLegacy /\ [][NextLegacy]_vars

\* POST /api/v1/calendar/events with the conflict flag it hands to the
\* notification (lines 206-225).
PostCalendarEvent(user, date, type) ==
  /\ evCount < MaxEvents
  /\ LET res == CreateCalendarEventResult(events, evCount + 1, user, date, type) IN
     /\ events' = res.events
     /\ evCount' = IF res.code = 200 THEN evCount + 1 ELSE evCount
     /\ view' = [op |-> "created", user |-> user, code |-> res.code,
                 is_conflict |-> IF res.code = 200
                                 THEN IsConflict(res.events, Uuid(evCount + 1),
                                                 FamilyIdsOf(user), date, type)
                                 ELSE FALSE]
  /\ race' = RaceKept(race, calls, events' # events)
  /\ UNCHANGED <<change_requests, crCount, swapLog, calls, gen, custodyAgreement>>

\* Events on the same days: the parents of both families and a caller
\* without family post events of both types, the schedule of F1 is
\* generated, and parent a deletes events.
NextConflict ==
  \/ \E u \in Parents \cup {"c", Stranger}, d \in Dates, t \in EventTypes :
       PostCalendarEvent(u, d, t)
  \/ Regenerate("a", 1)
  \/ \E n \in 1..MaxEvents : DeleteCalendarEvent("a", OidStr(n))

SpecConflict == Init /\ [][NextConflict]_vars

(* -------------- resolve calls interleaved before their write ---------- *)
\* A check that lets the requester approve.
CheckedResolution_NoSelfCheck(crs, user, request_id, status) ==
  LET r == FindChangeRequestForFamily(crs, request_id, FamilyIdsOf(user)) IN
  IF FamilyIdxOf(user) = 0 \/ r = 0 \/ status \notin {"approved", "rejected"}
  THEN [code |-> 404, doc |-> <<>>]
  ELSE [code |-> 0, doc |-> PersistResolution(crs, r, status, user)[r]]

\* update_change_request, lines 430-449: the lookup, the checks and the local
\* document with the decision: [code, doc], code 0 when the call goes on.
CheckedResolution(crs, user, request_id, status) ==
  LET refusal == ResolveRefusal(crs, user, request_id, status)
      r == FindChangeRequestForFamily(crs, request_id, FamilyIdsOf(user)) IN
  IF refusal # 0 THEN [code |-> refusal, doc |-> <<>>]
  ELSE [code |-> 0, doc |-> PersistResolution(crs, r, status, user)[r]]

\* update_one({"_id": doc._id}, {"$set": {status, resolvedBy_email}}), lines
\* 451-454, by a call that holds the local document doc.
WriteResolutionResult(crs, doc) ==
  [r \in DOMAIN crs |->
     IF crs[r].oid = doc.oid
     THEN [crs[r] EXCEPT !.status = doc.status, !.resolvedBy_email = doc.resolvedBy_email]
     ELSE crs[r]]

\* PUT /change-requests/{request_id} up to its checks: the call has read the
\* request and not written yet.
CheckResolve(user, request_id, status) ==
  /\ Cardinality(calls) < MaxCalls
  /\ LET res == CheckedResolution(change_requests, user, request_id, status) IN
     calls' = IF res.code = 0
              THEN calls \cup {[user |-> user, cr |-> res.doc, phase |-> "checked"]}
              ELSE calls
  /\ UNCHANGED <<events, change_requests, evCount, crCount, swapLog, race, gen, view,
                 custodyAgreement>>

\* The rest of the call: the status write, the notification and, for an
\* approval, the apply step (lines 451-523).
WriteResolution(c) ==
  /\ c \in calls /\ c.phase = "checked"
  /\ change_requests' = WriteResolutionResult(change_requests, c.cr)
  /\ events' = IF c.cr.status = "approved"
               THEN ApplyChange(events, c.cr, FamilyIdsOf(c.user)).events
               ELSE events
  /\ calls' = calls \ {c}
  /\ swapLog' = NoSwap
  /\ UNCHANGED <<evCount, crCount, race, gen, view, custodyAgreement>>

\* Resolve calls of both parents that overlap from their checks on: the
\* parents create events and file a request, and each resolves it with
\* either decision, again and again.
NextResolve ==
  \/ \E d \in Dates : CreateCalendarEvent("a", d, "general")
  \/ \E u \in Parents, n \in 1..MaxEvents, d \in Dates :
       CreateChangeRequest(MaxCRs, u, Uuid(n), "modify", d, NoId)
  \/ \E u \in Parents, n \in 1..MaxCRs, st \in {"approved", "rejected"} :
       CheckResolve(u, Uuid(n), st)
  \/ \E c \in calls : WriteResolution(c)

SpecResolve == Init /\ [][NextResolve]_vars

\* Runs of the schedule generator for family F1, one per agreement and start
\* day.
InitGen ==
  /\ events = <<>>
  /\ change_requests = <<>>
  /\ evCount = 0
  /\ crCount = 0
  /\ swapLog = NoSwap
  /\ calls = {}
  /\ race = NoRace
  /\ gen \in {GenEntry(1, ag, d) : ag \in Agreements, d \in StartDays}
  /\ view = NoView
  /\ custodyAgreement = NoAgreement

NextGen == GenStep223 \/ GenStepAlternating

SpecGen == InitGen /\ [][NextGen]_vars

(* ====================================================================== *)
(*                               Claims                                   *)
(* ====================================================================== *)
\* The strings by which a client can name document d: its id, when it has
\* one, and the string of its ObjectId.
NamesOf(d) == (IF d.id = NoId THEN {} ELSE {d.id}) \cup {OidStr(d.oid)}

\* Request r is pending and `user` is the other parent of its family.
OtherParentOf(cr, user) ==
  /\ user \in Parents
  /\ cr.requestedBy_email \in Parents
  /\ user # cr.requestedBy_email

(* C1: a resolve call with decision 'approved' by the identity that created *)
(* a pending request fails with 403 and leaves the requests and the events  *)
(* unchanged.                                                               *)
C1_SelfApprovalDenied ==
  \A r \in DOMAIN change_requests :
    LET cr == change_requests[r] IN
    cr.status = "pending" =>
      \A q \in NamesOf(cr) :
        LET res == UpdateChangeRequestResult(events, change_requests,
                                             cr.requestedBy_email, q, "approved") IN
        /\ res.code = 403
        /\ res.crs = change_requests
        /\ res.crs[r].status = "pending"
        /\ res.events = events

\* A pending request exists, stored beside events, and its requester's
\* approval is refused with 403.
C1_Witness ==
  \E r \in DOMAIN change_requests :
    /\ change_requests[r].status = "pending"
    /\ events # <<>>
    /\ UpdateChangeRequestResult(events, change_requests,
                                 change_requests[r].requestedBy_email,
                                 change_requests[r].id, "approved").code = 403

(* C2: a resolve call on a request that is already 'approved' or 'rejected' *)
(* fails (it does not answer 200) and leaves the requests and the events    *)
(* unchanged.                                                               *)
C2_TerminalResolveRejected ==
  [][\A u \in Parents, q \in RequestIdInputs, st \in {"approved", "rejected"} :
       LET r == FindChangeRequestForFamily(change_requests, q, FamilyIdsOf(u)) IN
       (/\ r # 0
        /\ change_requests[r].status \in {"approved", "rejected"}
        /\ UpdateChangeRequest(u, q, st))
       => (/\ UpdateChangeRequestResult(events, change_requests, u, q, st).code # 200
           /\ change_requests' = change_requests
           /\ events' = events)]_vars

(* C3: the mutation of a request is applied at most once: a resolve call on *)
(* a request that has already left 'pending' never changes an event.        *)
C3_MutationAtMostOnce ==
  [][\A u \in Parents, q \in RequestIdInputs, st \in StatusInputs :
       LET r == FindChangeRequestForFamily(change_requests, q, FamilyIdsOf(u)) IN
       (/\ r # 0
        /\ change_requests[r].status # "pending"
        /\ UpdateChangeRequest(u, q, st))
       => events' = events]_vars

(* C4, as stated: no resolved request (approved or rejected) has its        *)
(* requester as resolver.                                                   *)
C4_ResolverNeverRequester ==
  \A r \in DOMAIN change_requests :
    change_requests[r].status \in {"approved", "rejected"} =>
      change_requests[r].resolvedBy_email # change_requests[r].requestedBy_email

(* C4, amended: no approved request has its requester as resolver; an       *)
(* approved request always records a resolver.                              *)
C4_ApproverNeverRequester ==
  \A r \in DOMAIN change_requests :
    change_requests[r].status = "approved" =>
      /\ change_requests[r].resolvedBy_email # change_requests[r].requestedBy_email
      /\ change_requests[r].resolvedBy_email # NoEmail

\* A request approved by the other parent, and one rejected by its requester.
C4_Witness ==
  \E r \in DOMAIN change_requests :
    /\ change_requests[r].status = "approved"
    /\ change_requests[r].resolvedBy_email \in Parents
    /\ change_requests[r].requestedBy_email \in Parents

\* The step is the approval, by the other parent `u` through name `q`, of the
\* pending request at position r of kind `kind`.
ApprovalStep(u, q, r, kind) ==
  /\ r \in DOMAIN change_requests
  /\ q \in NamesOf(change_requests[r])
  /\ change_requests[r].status = "pending"
  /\ change_requests[r].requestType = kind
  /\ OtherParentOf(change_requests[r], u)
  /\ UpdateChangeRequest(u, q, "approved")

(* C5: approving a pending swap request on event A with partner B, both     *)
(* still stored, exchanges the dates of A and B, marks the request approved *)
(* and changes no other event's date.                                       *)
C5_SwapExchangesDates ==
  [][\A u \in Parents, q \in RequestIdInputs, r \in DOMAIN change_requests :
       LET cr == change_requests[r] IN
       (/\ ApprovalStep(u, q, r, "swap")
        /\ cr.event_oid \in OidsOf(events)
        /\ cr.swap_oid \in OidsOf(events))
       => (/\ DateOfOid(events', cr.event_oid) = DateOfOid(events, cr.swap_oid)
           /\ DateOfOid(events', cr.swap_oid) = DateOfOid(events, cr.event_oid)
           /\ change_requests'[r].status = "approved"
           /\ \A o \in OidsOf(events) \ {cr.event_oid, cr.swap_oid} :
                DateOfOid(events', o) = DateOfOid(events, o))]_vars

(* C7: approving a pending modify request whose target event is still       *)
(* stored sets the target's date to the request's newDate and changes,      *)
(* creates or deletes no other event.                                       *)
C7_ModifySetsNewDate ==
  [][\A u \in Parents, q \in RequestIdInputs, r \in DOMAIN change_requests :
       LET cr == change_requests[r] IN
       (/\ ApprovalStep(u, q, r, "modify")
        /\ cr.event_oid \in OidsOf(events))
       => (/\ DateOfOid(events', cr.event_oid) = cr.newDate
           /\ Len(events') = Len(events)
           /\ \A i \in DOMAIN events :
                events[i].oid # cr.event_oid => events'[i] = events[i])]_vars

(* C8: approving a pending cancel request whose target event is still       *)
(* stored removes exactly the target event and leaves every other event     *)
(* unchanged.                                                               *)
C8_CancelDeletesTarget ==
  [][\A u \in Parents, q \in RequestIdInputs, r \in DOMAIN change_requests :
       LET cr == change_requests[r] IN
       (/\ ApprovalStep(u, q, r, "cancel")
        /\ cr.event_oid \in OidsOf(events))
       => events' = RemoveAt(events, IdxOfOid(events, cr.event_oid))]_vars

(* C6: swap is its own inverse: when a swap request on (A, B) is approved   *)
(* and then a second, new swap request on (A, B) is approved, no step in    *)
(* between having changed A or B, both events have their original dates.    *)
C6_SwapTwiceRestores ==
  [][\A u \in Parents, q \in RequestIdInputs, r \in DOMAIN change_requests :
       LET cr == change_requests[r] IN
       (/\ ApprovalStep(u, q, r, "swap")
        /\ swapLog # NoSwap
        /\ swapLog.cr # cr.oid
        /\ swapLog.a = cr.event_oid
        /\ swapLog.b = cr.swap_oid)
       => (/\ DateOfOid(events', swapLog.a) = swapLog.da
           /\ DateOfOid(events', swapLog.b) = swapLog.db)]_vars


\* Event e names, for caller u, a stored event of u's family.
Accessible(u, e) ==
  \E i \in DOMAIN events :
    /\ e \in NamesOf(events[i])
    /\ events[i].family_id \in Range(FamilyIdsOf(u))

(* C9: createChangeRequest of kind 'modify' without a newDate persists      *)
(* nothing; on an event the caller can access it answers 400, on any other  *)
(* event 404.                                                               *)
C9_ModifyNeedsNewDate ==
  \A u \in Users, e \in EventIdInputs :
    LET res == CreateChangeRequestResult(events, change_requests, crCount + 1,
                                         u, e, "modify", NoDate, NoId) IN
    /\ res.crs = change_requests
    /\ res.code = IF Accessible(u, e) THEN 400 ELSE 404

\* A parent holds an event of their family and no request is stored: the
\* modify request without newDate on it is answered 400.
C9_Witness ==
  /\ change_requests = <<>>
  /\ \E i \in DOMAIN events :
       /\ events[i].family_id = "F1"
       /\ CreateChangeRequestResult(events, change_requests, crCount + 1, "b",
                                    OidStr(events[i].oid), "modify", NoDate, NoId).code = 400

(* C10: createChangeRequest of kind 'swap' succeeds only if swapEventId is  *)
(* present and names a stored event of the requester's family; otherwise it *)
(* fails with 400 or 404 and persists nothing.                              *)
C10_SwapNeedsOwnedPartner ==
  \A u \in Users, e \in EventIdInputs, w \in EventIdInputs \cup {NoId} :
    LET res == CreateChangeRequestResult(events, change_requests, crCount + 1,
                                         u, e, "swap", NoDate, w)
        partnerOk == w # NoId /\ Accessible(u, w) IN
    /\ res.code = 200 => partnerOk
    /\ ~partnerOk => res.code \in {400, 404} /\ res.crs = change_requests
    /\ res.code = 200 => Len(res.crs) = Len(change_requests) + 1

\* Events of both families are stored: a swap request of parent a naming
\* family F2's event as partner is refused, one naming an F1 event succeeds.
C10_Witness ==
  \E i, j, k \in DOMAIN events :
    /\ events[i].family_id = "F1" /\ events[k].family_id = "F1"
    /\ events[j].family_id = "F2"
    /\ CreateChangeRequestResult(events, change_requests, crCount + 1, "a",
                                 OidStr(events[i].oid), "swap", NoDate,
                                 OidStr(events[j].oid)).code = 404
    /\ CreateChangeRequestResult(events, change_requests, crCount + 1, "a",
                                 OidStr(events[i].oid), "swap", NoDate,
                                 OidStr(events[k].oid)).code = 200

(* C11: the owned lookup called with the id of a stored event E and the     *)
(* identifier list of a caller's family returns E if and only if            *)
(* E.family_id is in that list, and answers 404 in every other case.        *)
C11_OwnedLookupReturnsEvent ==
  \A i \in DOMAIN events, u \in Users :
    LET found == FindEventForFamily(events, events[i].id, FamilyIdsOf(u)) IN
    IF events[i].family_id \in Range(FamilyIdsOf(u)) THEN found = i ELSE found = 0

\* The same lookup through the names the API serialises for E (its id, or
\* the string of its ObjectId when it has none).
OwnedLookupBySerialisedName ==
  \A i \in DOMAIN events, u \in Users : \A x \in NamesOf(events[i]) :
    LET found == FindEventForFamily(events, x, FamilyIdsOf(u)) IN
    IF events[i].family_id \in Range(FamilyIdsOf(u)) THEN found = i ELSE found = 0

\* A document that request cr refers to (its target, or the partner of a
\* swap) is no longer stored.
ReferencedEventGone(cr) ==
  \/ cr.event_oid \notin OidsOf(events)
  \/ cr.requestType = "swap" /\ cr.swap_oid \notin OidsOf(events)

(* C12: when a pending request is approved and its target or its swap       *)
(* partner is no longer stored, the resolve call answers the Conflict       *)
(* status 409 (not 404, not 200) and changes no event.                      *)
C12_MissingEventIsConflict ==
  [][\A u \in Parents, q \in RequestIdInputs, r \in DOMAIN change_requests :
       LET cr == change_requests[r] IN
       (/\ ApprovalStep(u, q, r, cr.requestType)
        /\ ReferencedEventGone(cr))
       => (/\ UpdateChangeRequestResult(events, change_requests, u, q, "approved").code = 409
           /\ events' = events)]_vars

(* C13: a request stored as 'approved' has had its mutation applied: when   *)
(* the apply step of an approval fails, the request is not left in status   *)
(* 'approved'.                                                              *)
C13_ApprovedMeansApplied ==
  [][\A u \in Parents, q \in RequestIdInputs, r \in DOMAIN change_requests :
       LET cr == change_requests[r] IN
       (/\ ApprovalStep(u, q, r, cr.requestType)
        /\ UpdateChangeRequestResult(events, change_requests, u, q, "approved").code # 200)
       => change_requests'[r].status # "approved"]_vars

(* C15: the cleanup pass of a regeneration deletes only custody events of   *)
(* the family that have no user as creator; an event that a user created,   *)
(* of type 'custody' or not, is still stored after the regeneration.        *)
C15_CleanupSparesUserEvents ==
  [][\A u \in Parents, d \in Dates :
       Regenerate(u, d) =>
         \A i \in DOMAIN events :
           events[i].createdBy_email # NoEmail => events[i].oid \in OidsOf(events')]_vars

\* The apply step run without interruption is its lookups followed by its
\* writes.
ApplyIsReadThenWrite ==
  \A r \in DOMAIN change_requests, u \in Parents :
    LET cr == change_requests[r]
        rd == ReadForApplyResult(events, cr, FamilyIdsOf(u))
        whole == ApplyChange(events, cr, FamilyIdsOf(u)) IN
    /\ whole.code = rd.code
    /\ whole.events = IF rd.code = 200 THEN WriteApplyResult(events, cr, rd) ELSE events

\* The events after the resolve calls c1 and then c2, each run to its end
\* before the next begins, from the stores evs and crs.
SerialEvents(evs, crs, c1, c2) ==
  LET r1 == UpdateChangeRequestResult(evs, crs, c1.user, c1.q, "approved")
      r2 == UpdateChangeRequestResult(r1.events, r1.crs, c2.user, c2.q, "approved") IN
  r2.events

\* The ObjectIds of the events request cr refers to.
InvolvedOids(cr) ==
  {cr.event_oid} \cup (IF cr.requestType = "swap" THEN {cr.swap_oid} ELSE {})

\* The events with ObjectIds in O have the same dates in evs1 and evs2.
SameDates(evs1, evs2, O) == \A o \in O : DateOfOid(evs1, o) = DateOfOid(evs2, o)

\* Two resolve calls that overlapped, with no other change of the stores in
\* between, approved two different pending requests that share an event.
OverlappedApprovals ==
  /\ race.ok
  /\ Len(race.begun) = 2
  /\ LET r1 == FindChangeRequestForFamily(race.crs, race.begun[1].q,
                                          FamilyIdsOf(race.begun[1].user))
         r2 == FindChangeRequestForFamily(race.crs, race.begun[2].q,
                                          FamilyIdsOf(race.begun[2].user)) IN
     /\ r1 # 0 /\ r2 # 0 /\ r1 # r2
     /\ race.crs[r1].status = "pending" /\ race.crs[r2].status = "pending"
     /\ InvolvedOids(race.crs[r1]) \cap InvolvedOids(race.crs[r2]) # {}
     /\ InvolvedOids(race.crs[r1]) \cup InvolvedOids(race.crs[r2]) \subseteq OidsOf(race.evs)

(* C14: when two overlapping resolve calls approving different requests     *)
(* that share an event have both ended, the dates of the events the two     *)
(* requests refer to are those of running the two calls one after the       *)
(* other, in one of the two orders.                                         *)
C14_OverlappedApprovalsSerialise ==
  [][(calls # {} /\ calls' = {} /\ OverlappedApprovals) =>
       LET O == UNION {InvolvedOids(race.crs[r]) : r \in DOMAIN race.crs}
           s12 == SerialEvents(race.evs, race.crs, race.begun[1], race.begun[2])
           s21 == SerialEvents(race.evs, race.crs, race.begun[2], race.begun[1]) IN
       SameDates(events', s12, O) \/ SameDates(events', s21, O)]_vars

(* C16: a regeneration never deletes an event that a request refers to      *)
(* while a resolve call approving that request has written its status and   *)
(* has not yet applied its mutation.                                        *)
C16_RegenerationSparesPendingApply ==
  [][\A u \in Parents, d \in Dates :
       Regenerate(u, d) =>
         \A c \in calls : \A o \in InvolvedOids(c.cr) :
           o \in OidsOf(events) => o \in OidsOf(events')]_vars

\* The cycle-days of parent1 in the rotation P1,P1,P2,P2,P1,P1,P1,P2,P2,P1,
\* P1,P2,P2,P2; the other cycle-days are parent2's.
Parent1CycleDays == {0, 1, 4, 5, 6, 9, 10}

\* The generator output of n days from start_date in which day d belongs to
\* parent1 exactly when IsParent1Day[d - start_date].
ScheduleOf(start_date, n, parent1_email, parent2_email, IsParent1Day) ==
  [k \in 1..n |-> [date |-> start_date + k - 1,
                   parent |-> IF IsParent1Day[k - 1] THEN parent1_email
                              ELSE parent2_email]]

(* C17: under the 2-2-3 pattern the generated sequence is a function of the *)
(* start day and the number of days: day d belongs to the parent at         *)
(* position (d - start) mod 14 of P1,P1,P2,P2,P1,P1,P1,P2,P2,P1,P1,P2,P2,P2, *)
(* so cycle-day 0 is parent1's and cycle-day 13 parent2's.                  *)
C17_Rotation223ByCycleDay ==
  (gen.pc = "loop" /\ gen.is223) =>
    /\ gen.out = ScheduleOf(gen.start_date, Len(gen.out), gen.parent1_email,
                            gen.parent2_email,
                            [d \in 0..GenHorizon |-> (d % 14) \in Parent1CycleDays])
    /\ \A k \in DOMAIN gen.out :
         /\ (gen.out[k].date - gen.start_date) % 14 = 0
              => gen.out[k].parent = gen.parent1_email
         /\ (gen.out[k].date - gen.start_date) % 14 = 13
              => gen.out[k].parent = gen.parent2_email

\* A 2-2-3 run has passed its first cycle and begun the second.
C17_Witness ==
  /\ gen.pc = "loop" /\ gen.is223
  /\ Len(gen.out) > 15
  /\ gen.out[1].parent = "a" /\ gen.out[14].parent = "b" /\ gen.out[15].parent = "a"

\* The days among the first 14 of the output that belong to parent p.
DaysOfFirstCycle(p) == {k \in 1..14 : gen.out[k].parent = p}

(* C18: under the 2-2-3 pattern, of the 14 days starting at the start day   *)
(* exactly 7 belong to parent1 and exactly 7 to parent2.                    *)
C18_FirstCycleSevenEach ==
  (gen.pc = "loop" /\ gen.is223 /\ Len(gen.out) >= 14) =>
    /\ Cardinality(DaysOfFirstCycle(gen.parent1_email)) = 7
    /\ Cardinality(DaysOfFirstCycle(gen.parent2_email)) = 7

\* A 2-2-3 run has just generated its fourteenth day.
C18_Witness ==
  /\ gen.pc = "loop" /\ gen.is223
  /\ Len(gen.out) = 14
  /\ gen.parent1_email # gen.parent2_email

(* C19: under alternating weeks day d belongs to parent1 when               *)
(* (d - start) div 7 is even and to parent2 when it is odd; the running     *)
(* toggle of the loop produces exactly this on every day.                   *)
C19_AlternatingByWeekParity ==
  (gen.pc = "loop" /\ ~gen.is223) =>
    /\ gen.out = ScheduleOf(gen.start_date, Len(gen.out), gen.parent1_email,
                            gen.parent2_email,
                            [d \in 0..GenHorizon |-> (d \div 7) % 2 = 0])
    /\ Len(gen.out) > 0 => gen.current_parent = gen.out[Len(gen.out)].parent

\* An alternating-weeks run has switched parents three times.
C19_Witness ==
  /\ gen.pc = "loop" /\ ~gen.is223
  /\ Len(gen.out) >= 22
  /\ gen.out[7].parent = "a" /\ gen.out[8].parent = "b"
  /\ gen.out[15].parent = "a" /\ gen.out[22].parent = "b"

(* C20: the generator runs the 2-2-3 rotation exactly when the normalised   *)
(* text of the agreement contains "2-2-3" or "two-two-three", and           *)
(* alternating weeks for every other text, the empty one included.          *)
C20_PatternSelection ==
  gen.pc = "loop" =>
    LET text == Lower(StrOfAgreement(gen.agreement)) IN
    gen.is223 <=> (Contains(text, "2-2-3") \/ Contains(text, "two-two-three"))

(* C22: a direct edit or delete of a stored event, generator-created ones   *)
(* included, by a member of its family who is not its creator answers 403   *)
(* and leaves the events unchanged.                                         *)
C22_OnlyCreatorEditsOrDeletes ==
  \A i \in DOMAIN events, u \in Parents, d \in Dates :
    \A x \in NamesOf(events[i]) :
      (/\ events[i].family_id \in Range(FamilyIdsOf(u))
       /\ events[i].createdBy_email # u)
      => (/\ UpdateCalendarEventResult(events, u, x, d, "general")
               = [code |-> 403, events |-> events]
          /\ DeleteCalendarEventResult(events, u, x)
               = [code |-> 403, events |-> events])

\* Status strings of a resolve call that are no decision.
NoDecisions == {"pending", "cancelled", ""}

(* C23: a resolve call whose decision is neither 'approved' nor 'rejected', *)
(* on a request of the caller's family, answers 400 and leaves the requests *)
(* and the events unchanged (404 when the request is not the caller's).     *)
C23_InvalidDecisionRefused ==
  \A r \in DOMAIN change_requests, u \in Users, st \in NoDecisions :
    \A q \in NamesOf(change_requests[r]) :
      LET res == UpdateChangeRequestResult(events, change_requests, u, q, st) IN
      /\ res.crs = change_requests
      /\ res.events = events
      /\ res.code = IF change_requests[r].family_id \in Range(FamilyIdsOf(u))
                    THEN 400 ELSE 404

\* A pending request on a stored event: the other parent's call with status
\* 'pending' is answered 400.
C23_Witness ==
  \E r \in DOMAIN change_requests :
    /\ change_requests[r].status = "pending"
    /\ change_requests[r].event_oid \in OidsOf(events)
    /\ UpdateChangeRequestResult(events, change_requests, "b",
                                 change_requests[r].id, "pending").code = 400

\* Document doc is not of the family of user u.
ForeignTo(u, doc) == doc.family_id \notin Range(FamilyIdsOf(u))

\* The documents of collection coll that belong to family fid.
FamilyDocs(coll, fid) == SelectSeq(coll, LAMBDA doc : doc.family_id = fid)

\* Every call of user u on a request or an event of another family is
\* answered 404 and changes nothing, and u's list of requests holds requests
\* of u's family only.
ForeignCallsNotFound ==
  \A u \in Users :
    /\ \A r \in DOMAIN change_requests :
         ForeignTo(u, change_requests[r]) =>
           \A q \in NamesOf(change_requests[r]), st \in {"approved", "rejected"} :
             UpdateChangeRequestResult(events, change_requests, u, q, st)
               = [code |-> 404, crs |-> change_requests, events |-> events]
    /\ \A i \in DOMAIN events :
         ForeignTo(u, events[i]) =>
           \A x \in NamesOf(events[i]) :
             /\ UpdateCalendarEventResult(events, u, x, MaxDate, "general")
                  = [code |-> 404, events |-> events]
             /\ DeleteCalendarEventResult(events, u, x)
                  = [code |-> 404, events |-> events]
             /\ \A k \in RequestTypeInputs :
                  CreateChangeRequestResult(events, change_requests, crCount + 1,
                                            u, x, k, MaxDate, x)
                    = [code |-> 404, crs |-> change_requests]
    /\ \A k \in DOMAIN GetChangeRequestsResult(change_requests, u).body :
         ~ForeignTo(u, GetChangeRequestsResult(change_requests, u).body[k])

\* The step is a call of the parent of family F2.
StepOfF2 ==
  \/ CreateCalendarEvent("c", MaxDate, "general")
  \/ \E d \in Dates : Regenerate("c", d)

(* C24: family isolation: a resolve call on a request of another family and *)
(* an edit, delete or change request on an event of another family are      *)
(* answered 404, listed requests are those of the caller's family, and a    *)
(* call by a member of one family leaves the events and requests of the     *)
(* other family unchanged.                                                  *)
C24_FamilyIsolation ==
  /\ []ForeignCallsNotFound
  /\ [][/\ StepOfF2 => /\ FamilyDocs(events', "F1") = FamilyDocs(events, "F1")
                       /\ FamilyDocs(change_requests', "F1")
                            = FamilyDocs(change_requests, "F1")
        /\ ~StepOfF2 => /\ FamilyDocs(events', "F2") = FamilyDocs(events, "F2")
                        /\ FamilyDocs(change_requests', "F2")
                             = FamilyDocs(change_requests, "F2")]_vars

\* Events of both families and a request of family F1 are stored; the
\* resolve call of F2's parent on it is answered 404, as is parent a's edit
\* of F2's event.
C24_Witness ==
  \E r \in DOMAIN change_requests, i \in DOMAIN events :
    /\ change_requests[r].family_id = "F1"
    /\ events[i].family_id = "F2"
    /\ UpdateChangeRequestResult(events, change_requests, "c",
                                 change_requests[r].id, "approved").code = 404
    /\ UpdateCalendarEventResult(events, "a", events[i].id, MaxDate, "general").code = 404

(* ------------------------- C27: what a resolve persists ---------------- *)
\* C27: a resolve call that answers 200 leaves, in the stored request, the new
\* status, the resolver's identity and a resolution timestamp.
C27_ResolvePersistsStatusResolverTime ==
  \A r \in DOMAIN change_requests, u \in Parents, st \in {"approved", "rejected"} :
    \A q \in NamesOf(change_requests[r]) :
      LET res == UpdateChangeRequestResult(events, change_requests, u, q, st) IN
      (/\ res.code = 200
       /\ FindChangeRequestForFamily(change_requests, q, FamilyIdsOf(u)) = r)
      => /\ res.crs[r].status = st
         /\ res.crs[r].resolvedBy_email = u
         /\ res.crs[r].updatedAt # NoTime

(* ------------------------- C28: the snapshot of a request -------------- *)
\* The snapshot fields of a stored request.
SnapshotOf(cr) == <<cr.eventDate, cr.eventType, cr.swapEventDate>>

\* A created request is stored as pending, with its requester and the date and
\* type of the event named in the call (and the date of the partner of a swap).
CreatedWithSnapshot ==
  \A i \in DOMAIN events, u \in Parents :
    /\ \A k \in {"modify", "cancel"} :
         LET res == CreateChangeRequestResult(events, change_requests, crCount + 1, u,
                                              OidStr(events[i].oid), k, MaxDate, NoId) IN
         res.code = 200
         => LET new == res.crs[Len(res.crs)] IN
            /\ Len(res.crs) = Len(change_requests) + 1
            /\ <<new.status, new.requestedBy_email, new.eventDate, new.eventType>>
                 = <<"pending", u, events[i].date, events[i].type>>
    /\ \A j \in DOMAIN events :
         LET res == CreateChangeRequestResult(events, change_requests, crCount + 1, u,
                                              OidStr(events[i].oid), "swap", NoDate,
                                              OidStr(events[j].oid)) IN
         res.code = 200
         => LET new == res.crs[Len(res.crs)] IN
            /\ Len(res.crs) = Len(change_requests) + 1
            /\ <<new.status, new.requestedBy_email, new.eventDate, new.eventType,
                 new.swapEventDate>>
                 = <<"pending", u, events[i].date, events[i].type, events[j].date>>

C29_SwapUsesLiveDates ==
  [][\A u \in Parents, q \in RequestIdInputs, r \in DOMAIN change_requests :
       LET cr == change_requests[r] IN
       (/\ ApprovalStep(u, q, r, "swap")
        /\ cr.event_oid \in OidsOf(events)
        /\ cr.swap_oid \in OidsOf(events)
        /\ \/ DateOfOid(events, cr.event_oid) # cr.eventDate
           \/ DateOfOid(events, cr.swap_oid) # cr.swapEventDate)
       => (/\ DateOfOid(events', cr.event_oid) = DateOfOid(events, cr.swap_oid)
           /\ DateOfOid(events', cr.swap_oid) = DateOfOid(events, cr.event_oid))]_vars

\* The same for events that carry an id of their own.
SwapOfIdentifiedUsesLiveDates ==
  [][\A u \in Parents, q \in RequestIdInputs, r \in DOMAIN change_requests :
       LET cr == change_requests[r] IN
       (/\ ApprovalStep(u, q, r, "swap")
        /\ cr.event_oid \in OidsOf(events)
        /\ cr.swap_oid \in OidsOf(events)
        /\ cr.event_id # NoId /\ cr.swapEventId # NoId
        /\ \/ DateOfOid(events, cr.event_oid) # cr.eventDate
           \/ DateOfOid(events, cr.swap_oid) # cr.swapEventDate)
       => (/\ DateOfOid(events', cr.event_oid) = DateOfOid(events, cr.swap_oid)
           /\ DateOfOid(events', cr.swap_oid) = DateOfOid(events, cr.event_oid))]_vars

(* ------------------------- C30: several requests on one event ---------- *)
\* Request r is a pending modify request whose target, still stored, is also
\* the target of another request.
SharesTarget(r) ==
  /\ change_requests[r].event_oid \in OidsOf(events)
  /\ \E r2 \in DOMAIN change_requests :
       r2 # r /\ change_requests[r2].event_oid = change_requests[r].event_oid

\* C30: requests against the same event are resolvable independently of each
\* other, and each approval of a modify request among them leaves the event on
\* that request's newDate, so that the last approval decides the final date.
C30_LastApprovalWins ==
  [][\A u \in Parents, q \in RequestIdInputs, r \in DOMAIN change_requests :
       LET cr == change_requests[r] IN
       (/\ ApprovalStep(u, q, r, "modify")
        /\ SharesTarget(r))
       => (/\ UpdateChangeRequestResult(events, change_requests, u, q, "approved").code = 200
           /\ change_requests'[r].status = "approved"
           /\ \A r2 \in DOMAIN change_requests \ {r} : change_requests'[r2] = change_requests[r2]
           /\ DateOfOid(events', cr.event_oid) = cr.newDate)]_vars

\* The same for a target that carries an id of its own.
LastApprovalWinsOnIdentified ==
  [][\A u \in Parents, q \in RequestIdInputs, r \in DOMAIN change_requests :
       LET cr == change_requests[r] IN
       (/\ ApprovalStep(u, q, r, "modify")
        /\ SharesTarget(r)
        /\ cr.event_id # NoId)
       => (/\ UpdateChangeRequestResult(events, change_requests, u, q, "approved").code = 200
           /\ change_requests'[r].status = "approved"
           /\ \A r2 \in DOMAIN change_requests \ {r} : change_requests'[r2] = change_requests[r2]
           /\ DateOfOid(events', cr.event_oid) = cr.newDate)]_vars

(* ------------------------- C25: a failed notification ------------------ *)
\* C25: a call whose notification fails to be delivered answers as the call
\* whose notification is delivered does, and leaves the same events and
\* requests: the handlers' results, the approval's mutation included, do not
\* depend on the delivery, and no notifying call answers 500.
C25_NotificationFailureIsHarmless ==
  /\ \A u \in Parents, n \in 1..MaxEvents, d \in Dates :
       /\ AfterNotification(CreateCalendarEventResult(events, evCount + 1, u, d, "general"), "failed")
            = CreateCalendarEventResult(events, evCount + 1, u, d, "general")
       /\ AfterNotification(UpdateCalendarEventResult(events, u, Uuid(n), d, "general"), "failed")
            = UpdateCalendarEventResult(events, u, Uuid(n), d, "general")
       /\ AfterNotification(DeleteCalendarEventResult(events, u, Uuid(n)), "failed")
            = DeleteCalendarEventResult(events, u, Uuid(n))
       /\ \A k \in {"swap", "modify", "cancel"} :
            LET res == CreateChangeRequestResult(events, change_requests, crCount + 1,
                                                 u, Uuid(n), k, d, Uuid((n % MaxEvents) + 1)) IN
            AfterNotification(res, "failed") = res
  /\ \A u \in Parents, n \in 1..MaxCRs, st \in {"approved", "rejected"} :
       /\ UpdateChangeRequestNotified(events, change_requests, u, Uuid(n), st, "failed")
            = UpdateChangeRequestNotified(events, change_requests, u, Uuid(n), st, "sent")
       /\ UpdateChangeRequestNotified(events, change_requests, u, Uuid(n), st, "failed")
            = UpdateChangeRequestResult(events, change_requests, u, Uuid(n), st)
  /\ view # NoView => view.code # 500

\* An approval whose notification failed has been answered 200 and its request
\* is approved.
C25_Witness ==
  /\ view = Notified("approved", "failed", 200)
  /\ \E r \in DOMAIN change_requests :
       /\ change_requests[r].status = "approved"
       /\ change_requests[r].requestType = "modify"
       /\ DateOfOid(events, change_requests[r].event_oid) = change_requests[r].newDate
       /\ change_requests[r].eventDate # change_requests[r].newDate

(* ------------------------- C21: the month query ------------------------ *)
\* Months counted from year 0, so that adjacent months differ by one.
MonthIndex(year, month) == year * 12 + month

\* The family's events the month query is to return: those of the month, those
\* of the month before from the 25th on, those of the month after up to the 7th.
WindowOf(evs, user, year, month) ==
  SelectSeq(evs, LAMBDA doc :
    /\ doc.family_id \in Range(FamilyIdsOf(user))
    /\ LET k == MonthIndex(YearOf(doc.date), MonthOf(doc.date)) - MonthIndex(year, month) IN
       \/ k = 0
       \/ k = -1 /\ DayOf(doc.date) >= 25
       \/ k = 1 /\ DayOf(doc.date) <= 7)

\* The number of days of a month.
DaysInMonth(year, month) ==
  IF month \in {4, 6, 9, 11} THEN 30
  ELSE IF month # 2 THEN 31
  ELSE IF year % 4 = 0 /\ (year % 100 # 0 \/ year % 400 = 0) THEN 29 ELSE 28

\* The days between a date outside the month and the nearest day of the month
\* asked for, for a date of an adjacent month.
DaysFromMonth(date, year, month) ==
  IF MonthIndex(YearOf(date), MonthOf(date)) < MonthIndex(year, month)
  THEN DaysInMonth(YearOf(date), MonthOf(date)) - DayOf(date) + 1
  ELSE DayOf(date)

C26_NoFamilyEmptyLists ==
  /\ \A q \in MonthQueries :
       GetCalendarEventsResult(events, Stranger, q[1], q[2]) = [code |-> 200, body |-> <<>>]
  /\ GetChangeRequestsResult(change_requests, Stranger) = [code |-> 200, body |-> <<>>]
  /\ (view # NoView /\ view.user = Stranger) => (view.code = 200 /\ view.body = <<>>)

\* The caller without family has read a list while events and a request of
\* the families were stored.
C26_Witness ==
  /\ view # NoView /\ view.user = Stranger /\ view.op = "change-requests"
  /\ events # <<>> /\ change_requests # <<>>
  /\ view.body = <<>>

(* ------------------------- C31: a rejection ---------------------------- *)
\* C31: a step that rejects a pending request, of whatever kind, changes the
\* status and the resolver of that request and nothing else: the events and
\* every other request stay as they are.
C31_RejectionChangesOnlyRequest ==
  [][\A r \in DOMAIN change_requests :
       (/\ change_requests[r].status = "pending"
        /\ r \in DOMAIN change_requests'
        /\ change_requests'[r].status = "rejected")
       => /\ events' = events
          /\ \E u \in Parents :
               change_requests' = [change_requests EXCEPT ![r].status = "rejected",
                                                          ![r].resolvedBy_email = u]]_vars

\* A cancel request was rejected and its target is still stored.
C31_Witness ==
  \E r \in DOMAIN change_requests :
    /\ change_requests[r].status = "rejected"
    /\ change_requests[r].requestType = "cancel"
    /\ change_requests[r].resolvedBy_email = "b"
    /\ DateOfOid(events, change_requests[r].event_oid) = change_requests[r].eventDate

(* ------------------------- C32: the agreement status ------------------- *)
\* C32: the status of the custody agreement goes from 'processing' to
\* 'completed' or to 'failed': it is 'completed' only when the task's schedule
\* generation has returned, a generation that raises leaves 'failed', and no
\* step of a task takes the status from 'completed' to 'failed'.
C32_StatusProcessingThenFinal ==
  /\ [](custodyAgreement.status = "completed" => custodyAgreement.generated)
  /\ [][/\ ~(custodyAgreement.status = "completed" /\ custodyAgreement'.status = "failed")
        /\ custodyAgreement'.status \in {"completed", "failed"}
           /\ custodyAgreement'.status # custodyAgreement.status
           => custodyAgreement.status = "processing"
        /\ (custodyAgreement.pc = "generate" /\ custodyAgreement'.pc = "idle"
            /\ ~custodyAgreement'.generated)
           => custodyAgreement'.status = "failed"]_vars

\* The same for agreements entered by hand.
ManualStatusProcessingThenFinal ==
  /\ [](custodyAgreement.path = "manual" /\ custodyAgreement.status = "completed"
        => custodyAgreement.generated)
  /\ [][custodyAgreement.path = "manual"
        => /\ ~(custodyAgreement.status = "completed" /\ custodyAgreement'.status = "failed")
           /\ (custodyAgreement.pc = "generate" /\ custodyAgreement'.pc = "idle"
               /\ ~custodyAgreement'.generated)
              => custodyAgreement'.status = "failed"]_vars

(* ------------------------- C33: the identifiers of a family ------------ *)
\* The stored events of the family of user u, under either identifier.
EventsOfFamilyOf(evs, u) ==
  SelectSeq(evs, LAMBDA d : d.family_id \in Range(FamilyIdsOf(u)))

\* GET events and the owned lookup reach every event of the caller's family,
\* whichever identifier its family_id holds.
ReadsTreatIdentifiersAlike ==
  \A u \in Parents :
    /\ GetCalendarEventsResult(events, u, 0, 0).body = EventsOfFamilyOf(events, u)
    /\ \A i \in DOMAIN events :
         events[i].family_id \in Range(FamilyIdsOf(u))
         => FindEventForFamily(events, OidStr(events[i].oid), FamilyIdsOf(u)) = i

\* C33: the family-scoped event operations select the same events whichever
\* identifier of the family an event's family_id holds: GET events and the
\* owned lookup reach every event of the family, and the regeneration cleanup
\* and the deletion of the agreement remove every custody event of the family.
C33_IdentifiersEquivalent ==
  /\ ReadsTreatIdentifiersAlike
  /\ \A u \in Parents, i \in DOMAIN events :
       (events[i].family_id \in Range(FamilyIdsOf(u)) /\ events[i].type = "custody")
       => /\ events[i].oid \notin OidsOf(DeleteContractResult(events, u).events)
          /\ events[i].oid \notin OidsOf(GenerateCustodyEvents(events, evCount,
                                           Families[FamilyIdxOf(u)].id, 1))

(* ------------------------- C34: the conflict flag ---------------------- *)
\* C34: a POST of an event by a member of a family stores the event as
\* posted, after the events already stored, and the conflict flag handed to
\* the notification is true exactly when the new event is of type custody
\* and an event of type custody of the same family is already stored for the
\* same instant.
C34_ConflictFlagsNeverBlocks ==
  [][\A u \in Parents \cup {"c"}, d \in Dates, t \in EventTypes :
       PostCalendarEvent(u, d, t)
       => /\ view'.code = 200
          /\ Len(events') = Len(events) + 1
          /\ SubSeq(events', 1, Len(events)) = events
          /\ LET new == events'[Len(events')] IN
             /\ new.date = d /\ new.type = t /\ new.createdBy_email = u
             /\ new.family_id \in Range(FamilyIdsOf(u))
          /\ view'.is_conflict
               <=> (/\ t = "custody"
                    /\ \E i \in DOMAIN events :
                         /\ events[i].family_id \in Range(FamilyIdsOf(u))
                         /\ events[i].type = "custody"
                         /\ events[i].date = d)]_vars

\* A custody event was posted on the day of a stored custody event, flagged as
\* a conflict, and both are stored.
C34_Witness ==
  /\ view.op = "created" /\ view.is_conflict /\ view.code = 200
  /\ \E i, j \in DOMAIN events :
       /\ i < j /\ j = Len(events)
       /\ events[i].date = events[j].date
       /\ events[i].type = "custody" /\ events[j].type = "custody"
       /\ events[i].family_id = events[j].family_id

(* ------------------------- C35: the resolver of an approval ------------ *)
\* C35: whatever resolve calls were repeated on a request and however the
\* calls of the two parents overlapped, a stored request with status
\* 'approved' records a resolver, and the resolver is not its requester.
C35_ApprovedByOtherParent ==
  \A r \in DOMAIN change_requests :
    change_requests[r].status = "approved"
    => /\ change_requests[r].resolvedBy_email \in Parents
       /\ change_requests[r].resolvedBy_email # change_requests[r].requestedBy_email

\* A request is approved by the other parent while its requester's rejection
\* of it, checked before the approval was written, is still to be written.
C35_Witness ==
  \E r \in DOMAIN change_requests, c \in calls :
    /\ change_requests[r].status = "approved"
    /\ change_requests[r].resolvedBy_email # change_requests[r].requestedBy_email
    /\ c.phase = "checked"
    /\ c.cr.oid = change_requests[r].oid
    /\ c.user = change_requests[r].requestedBy_email
    /\ c.cr.status = "rejected"

(* ------------------------- C36: swaps permute dates -------------------- *)
\* How many stored events fall on date d.
DateCount(evs, d) == Cardinality({i \in DOMAIN evs : evs[i].date = d})

\* The request u names by q is a swap request of u's family.
IsSwapRequestOf(u, q) ==
  LET r == FindChangeRequestForFamily(change_requests, q, FamilyIdsOf(u)) IN
  r # 0 /\ change_requests[r].requestType = "swap"

\* C36: from every store the handlers reach, approving a swap request keeps
\* the stored events and the number of events on each date (the dates are
\* permuted among the events: none is added, dropped or duplicated), and a
\* swap of an event with itself leaves the events as they are.
C36_SwapsPermuteDates ==
  \A u \in Parents, q \in RequestIdInputs :
    IsSwapRequestOf(u, q)
    => LET after == UpdateChangeRequestResult(events, change_requests, u, q, "approved").events
           cr == change_requests[FindChangeRequestForFamily(change_requests, q, FamilyIdsOf(u))] IN
       /\ Len(after) = Len(events)
       /\ \A i \in DOMAIN events : after[i].oid = events[i].oid
       /\ \A d \in Dates \cup {NoDate} : DateCount(after, d) = DateCount(events, d)
       /\ cr.event_oid = cr.swap_oid => after = events

\* A swap of two events on different dates has been approved and the two
\* events have each other's date.
C36_Witness ==
  /\ swapLog # NoSwap
  /\ swapLog.a # swapLog.b
  /\ swapLog.da # swapLog.db
  /\ DateOfOid(events, swapLog.a) = swapLog.db
  /\ DateOfOid(events, swapLog.b) = swapLog.da

(* ---------------- C37: approval notice and applied change -------------- *)
\* C37: a resolve call with decision 'approved' that passed its checks and
\* whose resolution notification was sent ends with the requested change
\* applied (answer 200), never with an error of the apply step.
C37_ApprovalNoticeMeansApplied ==
  [][\A n \in 1..MaxCRs :
       /\ ResolveRefusal(change_requests, "b", Uuid(n), "approved") = 0
       /\ NotifyingUpdateChangeRequest("b", Uuid(n), "approved", "sent")
       => view'.code = 200]_vars

(* ------------- C38: requests on an event that is removed --------------- *)
\* Several requests on one event: the parents create events, the schedule
\* is generated, both parents file modify and cancel requests, the creator
\* deletes events directly and either parent resolves requests.
NextCancel ==
  \/ CreateCalendarEvent("a", 1, "general")
  \/ Regenerate("a", 1)
  \/ \E n \in 1..MaxEvents : DeleteCalendarEvent("a", Uuid(n))
  \/ \E u \in Parents, e \in EventIdInputs :
       CreateChangeRequest(MaxSwapCRs, u, e, "cancel", NoDate, NoId)
  \/ \E u \in Parents, e \in EventIdInputs :
       CreateChangeRequest(MaxSwapCRs, u, e, "modify", MaxDate, NoId)
  \/ \E u \in Parents, n \in 1..MaxSwapCRs, st \in {"approved", "rejected"} :
       UpdateChangeRequest(u, Uuid(n), st)

SpecCancel == Init /\ [][NextCancel]_vars

\* The other parent of family F1.
OtherParent(u) == IF u = "a" THEN "b" ELSE "a"

\* Request r is pending on an event that is no longer stored.
IsOrphaned(r) ==
  /\ change_requests[r].status = "pending"
  /\ change_requests[r].event_oid \notin OidsOf(events)

\* An orphaned request is still accepted by the resolve call of the other
\* parent: the checks refuse neither decision and the decision is stored.
OrphansResolvable ==
  \A r \in DOMAIN change_requests :
    IsOrphaned(r)
    => \A st \in {"approved", "rejected"} :
         LET u == OtherParent(change_requests[r].requestedBy_email)
             res == UpdateChangeRequestResult(events, change_requests, u,
                                              change_requests[r].id, st) IN
         /\ ResolveRefusal(change_requests, u, change_requests[r].id, st) = 0
         /\ res.crs[r].status = st
         /\ st = "rejected" => res.code = 200

\* A direct delete changes no request.
DeleteKeepsRequests ==
  \A n \in 1..MaxEvents :
    DeleteCalendarEvent("a", Uuid(n)) => change_requests' = change_requests

\* An approved cancel request changes no request but itself.
CancelKeepsOtherRequests ==
  \A u \in Parents, n \in 1..MaxSwapCRs :
    LET r == FindChangeRequestForFamily(change_requests, Uuid(n), FamilyIdsOf(u)) IN
    /\ r # 0
    /\ change_requests[r].requestType = "cancel"
    /\ UpdateChangeRequest(u, Uuid(n), "approved")
    => /\ Len(change_requests') = Len(change_requests)
       /\ \A q \in DOMAIN change_requests :
            q # r => change_requests'[q] = change_requests[q]

\* C38: deleting an event directly, or removing it by an approved cancel
\* request, leaves every other request as it was (none removed, none
\* rejected, snapshot kept), and a pending request whose event is gone is
\* still accepted for resolution.
C38_RemovalKeepsOtherRequests ==
  /\ []OrphansResolvable
  /\ [][DeleteKeepsRequests /\ CancelKeepsOtherRequests]_vars

\* A cancel request has been approved and removed its event while another
\* request on the same event is pending, snapshot included.
C38_Witness ==
  \E r, q \in DOMAIN change_requests :
    /\ r # q
    /\ change_requests[r].requestType = "cancel"
    /\ change_requests[r].status = "approved"
    /\ change_requests[q].event_oid = change_requests[r].event_oid
    /\ change_requests[q].eventDate # NoDate
    /\ IsOrphaned(q)

\* An event has been deleted directly while a request on it is pending.
DeletedUnderPendingRequest ==
  \E q \in DOMAIN change_requests :
    /\ IsOrphaned(q)
    /\ \A r \in DOMAIN change_requests : change_requests[r].status = "pending"

(* ------------- C39: generator runs that must change nothing ------------ *)
\* The family ids the generator is called with: the two families and an id
\* that no family document carries.
UnknownFamily == "F9"
FamilyIdInputs == {"F1", "F2", UnknownFamily}

\* One run of generate_custody_events(family_id, ...) started on day `start`.
RunGenerator(family_id, start) ==
  /\ GenerateCustodyEvents(events, evCount, family_id, start) # events
       => evCount + GenDays <= MaxEvents
  /\ start + GenDays - 1 <= MaxDate
  /\ events' = GenerateCustodyEvents(events, evCount, family_id, start)
  /\ evCount' = IF events' = events THEN evCount ELSE evCount + GenDays
  /\ view' = [op |-> "generated", family_id |-> family_id, before |-> events]
  /\ swapLog' = LogKept(swapLog, events, events')
  /\ race' = RaceKept(race, calls, events' # events)
  /\ UNCHANGED <<change_requests, crCount, calls, gen, custodyAgreement>>

\* Events of both types written by the users of both families (an event
\* document of any family_id, type 'custody' included, can be in the
\* store), and generator runs for every family id.
NextFrame ==
  \/ \E u \in Users, d \in Dates, t \in EventTypes : CreateCalendarEvent(u, d, t)
  \/ \E f \in FamilyIdInputs, d \in Dates : RunGenerator(f, d)

SpecFrame == Init /\ [][NextFrame]_vars

\* The custody events of family f in evs, as a set of ObjectIds.
CustodyOidsOf(evs, f) ==
  {evs[i].oid : i \in {j \in DOMAIN evs : evs[j].family_id = f /\ evs[j].type = "custody"}}

\* A run for a family id without family document, or for a family without
\* one of its parent emails, leaves the events collection as it was.
RunWithoutParentsChangesNothing ==
  \A f \in {"F2", UnknownFamily}, d \in Dates :
    RunGenerator(f, d) => events' = events /\ evCount' = evCount

\* A run for a family with both parents clears its custody events.
RunWithParentsClears ==
  \A d \in Dates :
    RunGenerator("F1", d) => CustodyOidsOf(events, "F1") \cap OidsOf(events') = {}

\* C39: generate_custody_events changes nothing in the events collection
\* when its family id resolves to no family or the family lacks a parent
\* email; the custody events are cleared only in runs for a family whose
\* two parents are known.
C39_GeneratorFrame ==
  [][RunWithoutParentsChangesNothing /\ RunWithParentsClears]_vars

\* The generator has run for family F2, which has no second parent, on a
\* store that held a custody event of F2 and one of F1, and both are kept.
C39_Witness ==
  /\ view.op = "generated" /\ view.family_id = "F2"
  /\ CustodyOidsOf(view.before, "F2") # {}
  /\ CustodyOidsOf(view.before, "F1") # {}
  /\ events = view.before

============================================================================
